---------------------------- MODULE Spec2Model ----------------------------
(***************************************************************************)
(* A model of sfs-js: the VPK archive reader (src/src/vpk.ts) and the game *)
(* filesystem that layers archive and folder providers                     *)
(* (src/src/game.ts, second half), over a read-only storage backend.       *)
(*                                                                         *)
(* JavaScript strings are sequences of one-character strings, byte arrays  *)
(* are sequences of numbers 0..255, and `undefined' is the value Undef.    *)
(* String helpers keep JavaScript's 0-based, half-open index conventions.  *)
(***************************************************************************)
EXTENDS Integers, Sequences, FiniteSets, TLC

VARIABLES
    disk,    \* the storage backend: [img, gone] (image id, paths removed)
    vpk,     \* the VpkSystem instance under test (SpecVpk)
    steam,   \* the SteamCache the GameSystem resolves installs with
    game,    \* the GameSystem instance under test (SpecGame)
    lastOp,  \* the last call made on the instance, its arguments and outcome
    hist,    \* history: whether a backend read failed, whether a call threw
    calls,   \* the calls in flight: each caller's call and its position
    cachecache  \* the static SteamCache.cachecache: root -> instance

vars == <<disk, vpk, steam, game, lastOp, hist, calls, cachecache>>

\* Optional and failing results are records, told apart by `kind'.
Undef == [kind |-> "undefined"]
Thrown == [kind |-> "throw"]
Bytes(b) == [kind |-> "bytes", bytes |-> b]
Bool(b) == [kind |-> "bool", val |-> b]
List(xs) == [kind |-> "list", items |-> xs]
Text(s) == [kind |-> "string", val |-> s]

\* ------------------------------------------------------------------ bounds

\* Numbered chunk files 0..MaxChunk exist in the backend images.
MaxChunk == 1

\* ------------------------------------------------------------ JS strings

\* const x = v; ...: the rest of a block, with the constant bound to a value.
Let(v, Rest(_)) == Rest(v)

Min2(a, b) == IF a < b THEN a ELSE b
Max2(a, b) == IF a > b THEN a ELSE b

\* s.slice(a, b) / bytes.slice(a, b): 0-based, half-open, negative indices
\* count from the end, out-of-range indices are clamped.
SliceIndex(n, a) == IF a < 0 THEN Max2(n + a, 0) ELSE Min2(a, n)

SliceBetween(s, a1, b1) == IF a1 >= b1 THEN <<>> ELSE SubSeq(s, a1 + 1, b1)

Slice(s, a, b) == SliceBetween(s, SliceIndex(Len(s), a), SliceIndex(Len(s), b))

SliceFrom(s, a) == Slice(s, a, Len(s))

StartsWith(s, p) == Len(p) <= Len(s) /\ SubSeq(s, 1, Len(p)) = p

EndsWith(s, p) ==
    Len(p) <= Len(s) /\ SubSeq(s, Len(s) - Len(p) + 1, Len(s)) = p

\* s.indexOf(c, from): the least 0-based index >= from holding c, or -1.
LeastOr(hits, none) ==
    IF hits = {} THEN none ELSE CHOOSE k \in hits : \A j \in hits : k <= j

GreatestOr(hits, none) ==
    IF hits = {} THEN none ELSE CHOOSE k \in hits : \A j \in hits : k >= j

RECURSIVE IndexOfLoop(_, _, _)
IndexOfLoop(s, c, k) ==
    IF k >= Len(s) THEN -1
    ELSE IF s[k + 1] = c THEN k
    ELSE IndexOfLoop(s, c, k + 1)

IndexOf(s, c, from) == IndexOfLoop(s, c, Max2(from, 0))

LastIndexOf(s, c) == GreatestOr({k \in 0..(Len(s) - 1) : s[k + 1] = c}, -1)

IsSpace(c) == c \in {" ", "\t", "\n", "\r"}

RECURSIVE TrimStart(_)
TrimStart(s) ==
    IF s # <<>> /\ IsSpace(Head(s)) THEN TrimStart(Tail(s)) ELSE s

RECURSIVE TrimEnd(_)
TrimEnd(s) ==
    IF s # <<>> /\ IsSpace(s[Len(s)])
    THEN TrimEnd(SubSeq(s, 1, Len(s) - 1)) ELSE s

\* s.trim()
Trim(s) == TrimEnd(TrimStart(s))

\* The characters that occur in the modelled paths, with their ASCII codes.
CharCodes ==
    << <<" ", 32>>, <<"+", 43>>, <<".", 46>>, <<"/", 47>>, <<"0", 48>>,
       <<"1", 49>>, <<"2", 50>>, <<"3", 51>>, <<"4", 52>>, <<"5", 53>>,
       <<"6", 54>>, <<"7", 55>>, <<"8", 56>>, <<"9", 57>>, <<"G", 71>>,
       <<"M", 77>>, <<"_", 95>>, <<"a", 97>>, <<"b", 98>>, <<"c", 99>>,
       <<"d", 100>>, <<"e", 101>>, <<"f", 102>>, <<"g", 103>>, <<"h", 104>>,
       <<"i", 105>>, <<"j", 106>>, <<"k", 107>>, <<"l", 108>>, <<"m", 109>>,
       <<"n", 110>>, <<"o", 111>>, <<"p", 112>>, <<"q", 113>>, <<"r", 114>>,
       <<"s", 115>>, <<"t", 116>>, <<"u", 117>>, <<"v", 118>>, <<"w", 119>>,
       <<"x", 120>>, <<"y", 121>>, <<"z", 122>>, <<"|", 124>> >>

\* TextDecoder.decode of one byte: the ASCII character with that code; a byte
\* that is no ASCII character of the table decodes to U+FFFD, written "?".
DecodeByteIn(codes, b) ==
    IF \E k \in 1..Len(codes) : codes[k][2] = b
    THEN codes[CHOOSE k \in 1..Len(codes) : codes[k][2] = b][1]
    ELSE "?"

DecodeByte(b) == DecodeByteIn(CharCodes, b)

\* new TextDecoder().decode(bytes)
TextDecode(bytes) == [k \in 1..Len(bytes) |-> DecodeByte(bytes[k])]

\* The UTF-8 encoding of an ASCII string (used to build backend files).
EncodeCharIn(codes, c) ==
    codes[CHOOSE k \in 1..Len(codes) : codes[k][1] = c][2]

EncodeChar(c) == EncodeCharIn(CharCodes, c)

TextEncode(s) == [k \in 1..Len(s) |-> EncodeChar(s[k])]

Digits == <<"0", "1", "2", "3", "4", "5", "6", "7", "8", "9">>

\* (n + ''): the decimal digits of a natural number.
RECURSIVE NumToString(_)
NumToString(n) ==
    IF n < 10 THEN <<Digits[n + 1]>>
    ELSE NumToString(n \div 10) \o <<Digits[(n % 10) + 1]>>

\* s.padStart(w, c)
RECURSIVE PadStart(_, _, _)
PadStart(s, w, c) == IF Len(s) >= w THEN s ELSE PadStart(<<c>> \o s, w, c)

\* ------------------------------------------------------------ path/posix

RECURSIVE StripTrailingSlashes(_)
StripTrailingSlashes(p) ==
    IF Len(p) > 1 /\ p[Len(p)] = "/"
    THEN StripTrailingSlashes(SubSeq(p, 1, Len(p) - 1)) ELSE p

\* Path.dirname(p)
DirnameAt(q, end, root) ==
    IF end < 1 THEN (IF root THEN <<"/">> ELSE <<".">>)
    ELSE IF root /\ end = 1 THEN <<"/", "/">>
    ELSE Slice(q, 0, end)

DirnameOf(q, root) == DirnameAt(q, LastIndexOf(q, "/"), root)

Dirname(p) ==
    IF p = <<>> THEN <<".">> ELSE DirnameOf(StripTrailingSlashes(p), p[1] = "/")

\* Path.basename(p)
BasenameOf(q) ==
    IF q = <<"/">> THEN <<>> ELSE SliceFrom(q, LastIndexOf(q, "/") + 1)

Basename(p) == BasenameOf(StripTrailingSlashes(p))

\* The segments of p between slashes.
RECURSIVE Segments(_)
Segments(p) ==
    IF "/" \notin {p[k] : k \in 1..Len(p)} THEN <<p>>
    ELSE <<Slice(p, 0, IndexOf(p, "/", 0))>>
             \o Segments(SliceFrom(p, IndexOf(p, "/", 0) + 1))

\* normalizeString: drop empty and "." segments, resolve "..".
RECURSIVE ResolveSegments(_, _, _)
ResolveSegments(segs, acc, absolute) ==
    IF segs = <<>> THEN acc
    ELSE IF Head(segs) = <<>> \/ Head(segs) = <<".">>
    THEN ResolveSegments(Tail(segs), acc, absolute)
    ELSE IF Head(segs) = <<".", ".">>
    THEN IF acc # <<>> /\ acc[Len(acc)] # <<".", ".">>
         THEN ResolveSegments(Tail(segs), SubSeq(acc, 1, Len(acc) - 1), absolute)
         ELSE IF absolute
         THEN ResolveSegments(Tail(segs), acc, absolute)
         ELSE ResolveSegments(Tail(segs), Append(acc, Head(segs)), absolute)
    ELSE ResolveSegments(Tail(segs), Append(acc, Head(segs)), absolute)

RECURSIVE JoinSegments(_)
JoinSegments(segs) ==
    IF segs = <<>> THEN <<>>
    ELSE IF Len(segs) = 1 THEN Head(segs)
    ELSE Head(segs) \o <<"/">> \o JoinSegments(Tail(segs))

\* Path.normalize(p)
NormalizeTail(body, trailing) ==
    IF body # <<>> /\ trailing THEN body \o <<"/">> ELSE body

NormalizeBody(body, absolute, trailing) ==
    IF absolute THEN <<"/">> \o NormalizeTail(body, trailing)
    ELSE IF body = <<>> THEN (IF trailing THEN <<".", "/">> ELSE <<".">>)
    ELSE NormalizeTail(body, trailing)

Normalize(p) ==
    IF p = <<>> THEN <<".">>
    ELSE NormalizeBody(JoinSegments(ResolveSegments(Segments(p), <<>>, p[1] = "/")),
                       p[1] = "/", p[Len(p)] = "/")

\* Path.join(a, b): the non-empty arguments joined by "/", then normalized.
Join(a, b) ==
    IF a = <<>> /\ b = <<>> THEN <<".">>
    ELSE Normalize(IF a = <<>> THEN b
                   ELSE IF b = <<>> THEN a
                   ELSE a \o <<"/">> \o b)

Join3(a, b, c) ==
    Join(IF a = <<>> THEN b ELSE IF b = <<>> THEN a ELSE a \o <<"/">> \o b, c)

\* ------------------------------------------------------------ byte arrays

\* view.getUint16(i, LE) / view.getUint32(i, LE); the caller checks the range
\* (an out-of-range read raises a RangeError).  The images keep every u32
\* below 2^31.
GetU16(bytes, i) == bytes[i + 1] + 256 * bytes[i + 2]

GetU32(bytes, i) ==
    bytes[i + 1] + 256 * bytes[i + 2] + 65536 * bytes[i + 3]
        + 16777216 * bytes[i + 4]

InRange(bytes, i, n) == i >= 0 /\ i + n <= Len(bytes)

\* bytes.indexOf(0x00, start)
IndexOfByte(bytes, b, from) == IndexOf(bytes, b, from)

LE16(n) == <<n % 256, (n \div 256) % 256>>

LE32(n) ==
    <<n % 256, (n \div 256) % 256, (n \div 65536) % 256,
      (n \div 16777216) % 256>>

\* ------------------------------------------------------ program constants

SIGNATURE == 1437209140      \* 0x55aa1234
VER_MIN == 1
VER_MAX == 2
INDEX_INLINE == 32767        \* 0x7fff
SIZE_HEADER_V1 == 12
SIZE_HEADER_V2 == 28
SIZE_ENTRY == 18             \* i += 16 + 2

VpkVersion_INVALID == -1
VpkVersion_NONE == 0
VpkVersion_V1 == 1
VpkVersion_V2 == 2

FileType_File == 1
FileType_Directory == 2

\* --------------------------------------------------- archive file images

\* A directory entry of the VPK tree: struct VPKDirectoryEntry.
Entry(crc, preload, idx, off, len) ==
    [crc |-> crc, preloadBytes |-> preload, archiveIndex |-> idx,
     offset |-> off, length |-> len]

EncodeString(s) == TextEncode(s) \o <<0>>

\* u32 crc, u16 preload length, u16 chunk index, u32 offset, u32 length, the
\* u16 terminator 0xffff, then the preload bytes.
EncodeEntry(e) ==
    LE32(e.crc) \o LE16(Len(e.preloadBytes)) \o LE16(e.archiveIndex)
        \o LE32(e.offset) \o LE32(e.length) \o <<255, 255>> \o e.preloadBytes

RECURSIVE EncodeFiles(_)
EncodeFiles(fs) ==
    IF fs = <<>> THEN <<0>>
    ELSE EncodeString(Head(fs).name) \o EncodeEntry(Head(fs).entry)
             \o EncodeFiles(Tail(fs))

RECURSIVE EncodeDirs(_)
EncodeDirs(ds) ==
    IF ds = <<>> THEN <<0>>
    ELSE EncodeString(Head(ds).path) \o EncodeFiles(Head(ds).files)
             \o EncodeDirs(Tail(ds))

RECURSIVE EncodeTree(_)
EncodeTree(es) ==
    IF es = <<>> THEN <<0>>
    ELSE EncodeString(Head(es).ext) \o EncodeDirs(Head(es).dirs)
             \o EncodeTree(Tail(es))

EncodeHeader(version, treeSize) ==
    LE32(SIGNATURE) \o LE32(version) \o LE32(treeSize)
        \o (IF version = 2 THEN LE32(0) \o LE32(0) \o LE32(0) \o LE32(0)
            ELSE <<>>)

\* The bytes of numbered chunk file k.
ChunkBytes(k) == <<10 * k + 10, 10 * k + 11, 10 * k + 12, 10 * k + 13>>

ChunkIds == 0..MaxChunk

\* One record per numbered chunk: /a/c<k>.t, two bytes of chunk k, with one
\* preload byte when k is odd.
ChunkFile(k) ==
    [name  |-> <<"c", Digits[k + 1]>>,
     entry |-> Entry(k + 1, IF k % 2 = 1 THEN <<7>> ELSE <<>>, k,
                     (k + 1) % 2, 2)]

\* The archive of the images: extension "t" with
\*   a/c<k>.t  a window of chunk k
\*   a/z.t     preload only (length 0), its chunk index names no chunk file
\*   a/o.t     a window that runs past the end of chunk 0
\*   i.t       (root, path " ") inline in the directory file
\*   a/s/d.t   an empty inline file
TreeImage ==
    << [ext  |-> <<"t">>,
        dirs |-> <<
          [path  |-> <<"a">>,
           files |-> [k \in 1..(MaxChunk + 1) |-> ChunkFile(k - 1)] \o
                     << [name |-> <<"z">>,
                         entry |-> Entry(90, <<8, 9>>, MaxChunk + 1, 0, 0)],
                        [name |-> <<"o">>,
                         entry |-> Entry(91, <<>>, 0, 3, 4)] >>],
          [path  |-> <<" ">>,
           files |-> << [name |-> <<"i">>,
                         entry |-> Entry(92, <<5>>, INDEX_INLINE, 1, 2)] >>],
          [path  |-> <<"a", "/", "s">>,
           files |-> << [name |-> <<"d">>,
                         entry |-> Entry(93, <<>>, INDEX_INLINE, 0, 0)] >>]
        >>] >>

\* The file data stored in the directory file after the tree.
InlineData == <<60, 61, 62, 63>>

DirFileImage(version) ==
    LET tree == EncodeTree(TreeImage)
    IN  EncodeHeader(version, Len(tree)) \o tree \o InlineData

\* Where the image is cut short: inside the name of the second file record.
CutAt == SIZE_HEADER_V1 + 4 + 3 + SIZE_ENTRY + 1

ImageIds == {"v1", "v2", "badsig", "badver", "cut"}

\* The directory file of each image.
DirFileBytes(img) ==
    CASE img = "v1"     -> DirFileImage(1)
      [] img = "v2"     -> DirFileImage(2)
      [] img = "badsig" -> <<0>> \o Tail(DirFileImage(1))
      [] img = "badver" -> LE32(SIGNATURE) \o LE32(3) \o SliceFrom(DirFileImage(1), 8)
      [] img = "cut"    -> Slice(DirFileImage(1), 0, CutAt)

ArchivePath == <<"/", "g", "/", "p", "_", "d", "i", "r", ".", "v", "p", "k">>

ChunkPath(k) ==
    <<"/", "g", "/", "p", "_">> \o PadStart(NumToString(k), 3, "0")
        \o <<".", "v", "p", "k">>

\* The backend image of the archive reader's runs: the directory file and
\* the numbered chunk files beside it.
VpkImageEntries(img) ==
    << <<ArchivePath, DirFileBytes(img)>> >> \o
    [k \in 1..(MaxChunk + 1) |-> <<ChunkPath(k - 1), ChunkBytes(k - 1)>>]

\* ---------------------------------------------- game installation images

GameImageIds == {"game"}

SteamRoot == <<"/", "s">>
LibraryPath == <<"/", "l">>
ModRoot == <<"/", "m">>

\* A small single-file archive: two preload-only files, a/c0.t and i.t.
SmallTree ==
    << [ext  |-> <<"t">>,
        dirs |-> <<
          [path  |-> <<"a">>,
           files |-> << [name |-> <<"c", "0">>,
                         entry |-> Entry(94, <<80>>, INDEX_INLINE, 0, 0)] >>],
          [path  |-> <<" ">>,
           files |-> << [name |-> <<"i">>,
                         entry |-> Entry(95, <<82>>, INDEX_INLINE, 0, 0)] >>]
        >>] >>

SmallArchiveBytes ==
    LET tree == EncodeTree(SmallTree)
    IN  EncodeHeader(1, Len(tree)) \o tree

\* The game installation, in directory order: the Steam library metadata,
\* the mod with its configuration, two folders and a chunked archive, and a
\* second application with a single-file archive and a folder.
GameImageEntries ==
    << <<<<"/", "s", "/", "s", "t", "e", "a", "m", "a", "p", "p", "s", "/", "l", "i", "b", "r", "a", "r", "y", "f", "o", "l", "d", "e", "r", "s", ".", "v", "d", "f">>, <<34>> >>,
       <<<<"/", "l", "/", "s", "t", "e", "a", "m", "a", "p", "p", "s", "/", "a", "p", "p", "m", "a", "n", "i", "f", "e", "s", "t", "_", "1", ".", "a", "c", "f">>, <<34>> >>,
       <<<<"/", "l", "/", "s", "t", "e", "a", "m", "a", "p", "p", "s", "/", "a", "p", "p", "m", "a", "n", "i", "f", "e", "s", "t", "_", "2", ".", "a", "c", "f">>, <<34>> >>,
       <<<<"/", "m", "/", "g", "a", "m", "e", "i", "n", "f", "o", ".", "t", "x", "t">>, <<34>> >>,
       <<<<"/", "m", "/", "d", "/", "a", "/", "c", "0", ".", "t">>, <<70, 71>> >>,
       <<<<"/", "m", "/", "d", "/", "a", "/", "y", ".", "t">>, <<72>> >>,
       <<<<"/", "m", "/", "d", "/", "a", "/", "s">>, <<73>> >>,
       <<<<"/", "m", "/", "d", "/", "a", "/", "c", "o", "n", "s", "t", "r", "u", "c", "t", "o", "r", "/", "k", ".", "t">>, <<76>> >>,
       <<<<"/", "e", "/", "a", "/", "c", "1", ".", "t">>, <<74>> >>,
       <<<<"/", "e", "/", "w", ".", "t">>, <<75>> >>,
       <<<<"/", "m", "/", "p", "_", "d", "i", "r", ".", "v", "p", "k">>, DirFileImage(1)>> >> \o
    [k \in 1..(MaxChunk + 1) |->
        <<<<"/", "m", "/", "p", "_">> \o PadStart(NumToString(k - 1), 3, "0") \o <<".", "v", "p", "k">>,
          ChunkBytes(k - 1)>>] \o
    << <<<<"/", "l", "/", "s", "t", "e", "a", "m", "a", "p", "p", "s", "/", "c", "o", "m", "m", "o", "n", "/", "h", "/", "h", "2", "/", "q", ".", "v", "p", "k">>, SmallArchiveBytes>>,
       <<<<"/", "l", "/", "s", "t", "e", "a", "m", "a", "p", "p", "s", "/", "c", "o", "m", "m", "o", "n", "/", "h", "/", "h", "2", "/", "k", "/", "a", "/", "c", "1", ".", "t">>, <<81>> >> >>

\* The storage backend over an image: the files in directory order, the
\* paths removed since, the documents its configuration files parse to, and
\* the paths at which its readFile raises instead of answering (none on a
\* NodeSystem, whose readFile catches; a ReadableFileSystem may reject).
Disk(img, entries, docs) ==
    [img |-> img, gone |-> {}, entries |-> entries, docs |-> docs,
     raising |-> {}]

\* ------------------------------------------------------- storage backend

\* The positions of a path among the files of the image.
FsEntry(d, path) == {k \in 1..Len(d.entries) : d.entries[k][1] = path}

FsHas(d, path) == FsEntry(d, path) # {} /\ path \notin d.gone

FsContent(d, path) == d.entries[CHOOSE k \in FsEntry(d, path) : TRUE][2]

\* A directory of the image: the root, or a proper ancestor of a file.
FsHasDir(d, path) ==
    \/ path = <<"/">>
    \/ \E k \in 1..Len(d.entries) :
           StartsWith(d.entries[k][1], StripTrailingSlashes(path) \o <<"/">>)

\* this.fs.readFile(path). NodeSystem.readFile: the bytes of the file,
\* undefined for a missing path; a backend that rejects the read raises.
FsReadFile(d, path) ==
    IF path \in d.raising THEN Thrown
    ELSE IF FsHas(d, path) THEN Bytes(FsContent(d, path)) ELSE Undef

\* try { return await ... } catch { return undefined }
Caught(r) == IF r = Thrown THEN Undef ELSE r

\* A FileStat.
Stat(type, size, time) ==
    [kind |-> "stat", type |-> type, size |-> size, ctime |-> time,
     mtime |-> time]

\* NodeSystem.stat: files and directories of the backend carry a (non-zero)
\* time stamp.
FsStat(d, path) ==
    IF FsHas(d, path)
    THEN Stat(FileType_File, Len(FsContent(d, path)), 1)
    ELSE IF FsHasDir(d, path) THEN Stat(FileType_Directory, 0, 1)
    ELSE Undef

\* The names directly under directory dir, in directory order, each once.
RECURSIVE ChildrenLoop(_, _, _, _, _)
ChildrenLoop(d, entries, k, dir, out) ==
    IF k > Len(entries) THEN out
    ELSE
    LET p      == entries[k][1]
        prefix == IF dir = <<"/">> THEN dir ELSE dir \o <<"/">>
    IN
    Let(SliceFrom(p, Len(prefix)), LAMBDA rest :
    Let(IndexOf(rest, "/", 0), LAMBDA cut :
        LET name == IF cut = -1 THEN rest ELSE Slice(rest, 0, cut)
            type == IF cut = -1 THEN FileType_File ELSE FileType_Directory
        IN  IF ~StartsWith(p, prefix) \/ (cut = -1 /\ p \in d.gone)
               \/ \E j \in 1..Len(out) : out[j][1] = name
            THEN ChildrenLoop(d, entries, k + 1, dir, out)
            ELSE ChildrenLoop(d, entries, k + 1, dir,
                              Append(out, <<name, type>>))
    ))

\* NodeSystem.readDirectory: undefined unless the path is a directory.
FsReadDirectory(d, path) ==
    IF ~FsHasDir(d, path) THEN Undef
    ELSE List(ChildrenLoop(d, d.entries, 1,
                           StripTrailingSlashes(path), <<>>))

\* ------------------------------------------------------------- VpkSystem

\* The ordered file table (a JavaScript object keeps its keys in insertion
\* order): a sequence of [path, info].
HasFile(files, path) == \E k \in 1..Len(files) : files[k].path = path

FileInfoOf(files, path) ==
    files[CHOOSE k \in 1..Len(files) : files[k].path = path].info

\* this.files[fullpath] = info
PutFile(files, path, info) ==
    IF HasFile(files, path)
    THEN [k \in 1..Len(files) |->
            IF files[k].path = path THEN [path |-> path, info |-> info]
            ELSE files[k]]
    ELSE Append(files, [path |-> path, info |-> info])

\* new VpkSystem(fs, path, enableCache)
NewVpkSystem(path0, enableCache) ==
    LET path   == IF EndsWith(path0, <<".", "v", "p", "k">>) THEN path0
                  ELSE path0 \o <<".", "v", "p", "k">>
        single == ~EndsWith(path, <<"_", "d", "i", "r", ".", "v", "p", "k">>)
    IN  [path     |-> path,
         root     |-> Dirname(path),
         name     |-> Slice(Basename(path), 0, IF single THEN -4 ELSE -8),
         single   |-> single,
         cacheOn  |-> enableCache,
         version  |-> VpkVersion_NONE,
         treeSize |-> 0,
         files    |-> <<>>,
         dirs     |-> {<<>>},
         cache    |-> <<>>]

\* readString(): [ok, i, str]; not ok when no NUL follows (the throw).
ReadString(bytes, i) ==
    LET end == IndexOfByte(bytes, 0, i)
    IN  IF end = -1 THEN [ok |-> FALSE, i |-> i, str |-> <<>>]
        ELSE [ok |-> TRUE, i |-> end + 1,
              str |-> TextDecode(Slice(bytes, i, end))]

\* A variant that takes the preload bytes right after the 16 bytes of
\* fields.
ReadFileInfo_NoTerminator(bytes, i) ==
    IF ~InRange(bytes, i, 16) THEN [ok |-> FALSE, i |-> i, info |-> Undef]
    ELSE LET preloadLength == GetU16(bytes, i + 4)
             j             == i + 16
         IN  [ok   |-> TRUE,
              i    |-> j + preloadLength,
              info |-> [crc          |-> GetU32(bytes, i),
                        preloadBytes |-> Slice(bytes, j, j + preloadLength),
                        archiveIndex |-> GetU16(bytes, i + 6),
                        offset       |-> GetU32(bytes, i + 8),
                        length       |-> GetU32(bytes, i + 12)]]

\* readFileInfo(): [ok, i, info]; not ok when a DataView read is out of range.
ReadFileInfo(bytes, i) ==
    IF ~InRange(bytes, i, 16) THEN [ok |-> FALSE, i |-> i, info |-> Undef]
    ELSE LET preloadLength == GetU16(bytes, i + 4)
             j             == i + SIZE_ENTRY
         IN  [ok   |-> TRUE,
              i    |-> j + preloadLength,
              info |-> [crc          |-> GetU32(bytes, i),
                        preloadBytes |-> Slice(bytes, j, j + preloadLength),
                        archiveIndex |-> GetU16(bytes, i + 6),
                        offset       |-> GetU32(bytes, i + 8),
                        length       |-> GetU32(bytes, i + 12)]]

\* The innermost loop of the tree: the files of one directory.
RECURSIVE ParseFiles(_, _, _, _, _)
ParseFiles(bytes, i, path, extension, files) ==
    Let(ReadString(bytes, i), LAMBDA fn :
        IF ~fn.ok THEN [ok |-> FALSE, i |-> i, files |-> files]
        ELSE IF fn.str = <<>> THEN [ok |-> TRUE, i |-> fn.i, files |-> files]
        ELSE
        Let(ReadFileInfo(bytes, fn.i), LAMBDA rec :
            LET fullpath == Trim(path \o <<"/">> \o fn.str \o <<".">>
                                      \o extension)
            IN  IF ~rec.ok THEN [ok |-> FALSE, i |-> fn.i, files |-> files]
                ELSE ParseFiles(bytes, rec.i, path, extension,
                                PutFile(files, fullpath, rec.info))
        )
    )

\* A variant that records the directory alone, without its ancestors.
AddDirs_LeafOnly(dirs, path) == dirs \cup {path, path \o <<"/">>}

\* "Add all subdirectories": the path, the path with a slash, and every
\* prefix that ends before a slash at index 1 or later.
AddDirs(dirs, path) ==
    dirs \cup {path, path \o <<"/">>}
         \cup {Slice(path, 0, k) : k \in {j \in 1..(Len(path) - 1) :
                                              path[j + 1] = "/"}}

\* The directory of a path string of the tree: " " is the root, and a path
\* gets a leading slash.
DirPath(str) ==
    IF str = <<" ">> THEN <<>>
    ELSE IF str # <<>> /\ ~StartsWith(str, <<"/">>) THEN <<"/">> \o str
    ELSE str

\* The middle loop: the directories of one extension.
RECURSIVE ParseDirs(_, _, _, _, _)
ParseDirs(bytes, i, extension, files, dirs) ==
    Let(ReadString(bytes, i), LAMBDA ps :
        IF ~ps.ok THEN [ok |-> FALSE, i |-> i, files |-> files, dirs |-> dirs]
        ELSE IF ps.str = <<>>
        THEN [ok |-> TRUE, i |-> ps.i, files |-> files, dirs |-> dirs]
        ELSE
        Let(DirPath(ps.str), LAMBDA path :
        Let(ParseFiles(bytes, ps.i, path, extension, files), LAMBDA fs :
            IF ~fs.ok
            THEN [ok |-> FALSE, i |-> fs.i, files |-> fs.files,
                  dirs |-> AddDirs(dirs, path)]
            ELSE ParseDirs(bytes, fs.i, extension, fs.files,
                           AddDirs(dirs, path))
        ))
    )

\* The outer loop ("Read tree"): [ok, files, dirs]; not ok when a string or a
\* record could not be read, with what was decoded until then.
RECURSIVE ParseTree(_, _, _, _)
ParseTree(bytes, i, files, dirs) ==
    Let(ReadString(bytes, i), LAMBDA ext :
        IF ~ext.ok THEN [ok |-> FALSE, files |-> files, dirs |-> dirs]
        ELSE IF ext.str = <<>>
        THEN [ok |-> TRUE, files |-> files, dirs |-> dirs]
        ELSE
        Let(ParseDirs(bytes, ext.i, ext.str, files, dirs), LAMBDA ds :
            IF ~ds.ok
            THEN [ok |-> FALSE, files |-> ds.files, dirs |-> ds.dirs]
            ELSE ParseTree(bytes, ds.i, ds.files, ds.dirs)
        )
    )

\* What a method call yields: the instance afterwards, the value returned (or
\* Thrown) and the backend paths read on the way.
Outcome(v, result, io) == [v |-> v, result |-> result, io |-> io]

\* VpkSystem.parse(force)
VpkParse(v, d, force) ==
    IF ~force /\ v.version = VpkVersion_INVALID
    THEN Outcome(v, Bool(FALSE), <<>>)
    ELSE
    Let(FsReadFile(d, v.path), LAMBDA read :
        LET v0      == [v EXCEPT !.version = VpkVersion_INVALID]
            io      == <<v.path>>
            bytes   == read.bytes
            version == GetU32(bytes, 4)
            header  == IF version = 2 THEN SIZE_HEADER_V2 ELSE SIZE_HEADER_V1
            v1      == [v0 EXCEPT !.version = version]
            v2      == [v1 EXCEPT !.treeSize = GetU32(bytes, 8)]
        IN  IF read = Thrown THEN Outcome(v0, Thrown, io)
            ELSE IF read = Undef THEN Outcome(v0, Bool(FALSE), io)
            ELSE IF ~InRange(bytes, 0, 4) \/ GetU32(bytes, 0) # SIGNATURE
            THEN Outcome(v0, Thrown, io)
            ELSE IF ~InRange(bytes, 4, 4) THEN Outcome(v0, Thrown, io)
            ELSE IF version < VER_MIN \/ version > VER_MAX
            THEN Outcome(v0, Thrown, io)
            ELSE IF ~InRange(bytes, 8, 4) THEN Outcome(v1, Thrown, io)
            ELSE IF version = 2 /\ ~InRange(bytes, 12, 16)
            THEN Outcome(v2, Thrown, io)
            ELSE
            Let(ParseTree(bytes, header, v.files, v.dirs), LAMBDA tree :
                Outcome([v2 EXCEPT !.files = tree.files, !.dirs = tree.dirs],
                        IF tree.ok THEN Bool(TRUE) ELSE Thrown, io)
            )
    )

\* VpkSystem.validate(): parses an instance never parsed, swallows what parse
\* throws, and answers from the version alone.
VpkValidate(v, d) ==
    Let(IF v.version = VpkVersion_NONE THEN VpkParse(v, d, FALSE)
        ELSE Outcome(v, Bool(TRUE), <<>>), LAMBDA p :
        Outcome(p.v, Bool(p.v.version # VpkVersion_INVALID), p.io)
    )

\* A variant of #getArchivePath that names a numbered file for every index.
VpkGetArchivePath_Numbered(v, index) ==
    Join(v.root, v.name \o <<"_">> \o PadStart(NumToString(index), 3, "0")
                        \o <<".", "v", "p", "k">>)

\* #getArchivePath(index)
VpkGetArchivePath(v, index) ==
    IF index = INDEX_INLINE THEN v.path
    ELSE Join(v.root, v.name \o <<"_">> \o PadStart(NumToString(index), 3, "0")
                          \o <<".", "v", "p", "k">>)

\* A variant of the failed chunk load that raises instead.
MissingArchiveData_Raises(v, path) == Outcome(v, Thrown, <<path>>)

\* #getArchiveData when the backend has no such file: undefined, no entry.
MissingArchiveData(v, path) == Outcome(v, Undef, <<path>>)

\* A variant of #getArchiveData that does not look into the cache.
VpkGetArchiveData_Uncached(v, d, index) ==
    Let(VpkGetArchivePath(v, index), LAMBDA path :
    Let(FsReadFile(d, path), LAMBDA read :
        IF read = Thrown THEN Outcome(v, Thrown, <<path>>)
        ELSE IF read = Undef THEN MissingArchiveData(v, path)
        ELSE IF v.cacheOn
        THEN Outcome([v EXCEPT !.cache =
                         [k \in DOMAIN v.cache \cup {index} |->
                             IF k = index THEN read.bytes ELSE v.cache[k]]],
                     read, <<path>>)
        ELSE Outcome(v, read, <<path>>)
    ))

\* #getArchiveData(index)
VpkGetArchiveData(v, d, index) ==
    IF v.cacheOn /\ index \in DOMAIN v.cache
    THEN Outcome(v, Bytes(v.cache[index]), <<>>)
    ELSE
    Let(VpkGetArchivePath(v, index), LAMBDA path :
    Let(FsReadFile(d, path), LAMBDA read :
        IF read = Thrown THEN Outcome(v, Thrown, <<path>>)
        ELSE IF read = Undef THEN MissingArchiveData(v, path)
        ELSE IF v.cacheOn
        THEN Outcome([v EXCEPT !.cache =
                         [k \in DOMAIN v.cache \cup {index} |->
                             IF k = index THEN read.bytes ELSE v.cache[k]]],
                     read, <<path>>)
        ELSE Outcome(v, read, <<path>>)
    ))

\* VpkSystem.cleanCache()
VpkCleanCache(v) == [v EXCEPT !.cache = <<>>]

\* VpkSystem.getFileInfo(path)
VpkGetFileInfo(v, d, path) ==
    Let(VpkValidate(v, d), LAMBDA ok :
        IF ~ok.result.val THEN Outcome(ok.v, Undef, ok.io)
        ELSE IF HasFile(ok.v.files, path)
        THEN Outcome(ok.v, FileInfoOf(ok.v.files, path), ok.io)
        ELSE Outcome(ok.v, Undef, ok.io)
    )

\* A variant that takes the preload shortcut for inline records only.
IsPreloadOnly_InlineOnly(info) ==
    info.length = 0 /\ info.archiveIndex = INDEX_INLINE

\* "Entire file is stored in preloadBytes": if (!info.length)
IsPreloadOnly(info) == info.length = 0

\* The offset of the data window inside the loaded chunk.
DataOffset(v, info) ==
    IF info.archiveIndex = INDEX_INLINE THEN info.offset + v.treeSize
    ELSE info.offset

\* new Uint8Array(buffer, offset, length): a RangeError unless the window
\* lies inside the buffer (the backend's arrays start at offset 0 of their
\* buffer).
WindowInRange(data, offset, length) == offset + length <= Len(data)

\* A variant that returns the window alone.
Assemble_WindowOnly(preloadBytes, window) == window

\* "Combine preloadBytes and body data in new buffer"
Assemble(preloadBytes, window) == preloadBytes \o window

\* VpkSystem.readFile(path)
VpkReadFile(v, d, path) ==
    Let(VpkValidate(v, d), LAMBDA ok :
        IF ~ok.result.val THEN Outcome(ok.v, Undef, ok.io)
        ELSE
        Let(VpkGetFileInfo(ok.v, d, path), LAMBDA gi :
            LET info   == gi.result
                io1    == ok.io \o gi.io
                offset == DataOffset(gi.v, info)
            IN  IF info = Undef THEN Outcome(gi.v, Undef, io1)
                ELSE IF IsPreloadOnly(info)
                THEN Outcome(gi.v, Bytes(info.preloadBytes), io1)
                ELSE
                Let(VpkGetArchiveData(gi.v, d, info.archiveIndex), LAMBDA ad :
                    IF ad.result = Thrown
                    THEN Outcome(ad.v, Thrown, io1 \o ad.io)
                    ELSE IF ad.result = Undef
                    THEN Outcome(ad.v, Undef, io1 \o ad.io)
                    ELSE IF ~WindowInRange(ad.result.bytes, offset,
                                           info.length)
                    THEN Outcome(ad.v, Thrown, io1 \o ad.io)
                    ELSE Outcome(ad.v,
                                 Bytes(Assemble(info.preloadBytes,
                                                Slice(ad.result.bytes, offset,
                                                      offset + info.length))),
                                 io1 \o ad.io)
                )
        )
    )

\* The loop of readDirectory over the file table, in table order.
RECURSIVE VpkListLoop(_, _, _, _, _)
VpkListLoop(files, k, path, included, out) ==
    IF k > Len(files) THEN out
    ELSE
    LET file == files[k].path
    IN
    Let(IndexOf(file, "/", Len(path) + 1), LAMBDA slash_pos :
    Let(Slice(file, 0, slash_pos), LAMBDA dirname :
        IF ~StartsWith(file, path)
        THEN VpkListLoop(files, k + 1, path, included, out)
        ELSE IF slash_pos # -1
        THEN IF dirname = path \/ dirname \in included
             THEN VpkListLoop(files, k + 1, path, included, out)
             ELSE VpkListLoop(files, k + 1, path, included \cup {dirname},
                              Append(out, <<Basename(dirname),
                                            FileType_Directory>>))
        ELSE VpkListLoop(files, k + 1, path, included,
                         Append(out, <<Basename(file), FileType_File>>))
    ))

\* VpkSystem.readDirectory(path)
VpkReadDirectory(v, d, path) ==
    Let(VpkValidate(v, d), LAMBDA ok :
        IF ~ok.result.val THEN Outcome(ok.v, Undef, ok.io)
        ELSE Outcome(ok.v, List(VpkListLoop(ok.v.files, 1, path, {}, <<>>)),
                     ok.io)
    )

\* VpkSystem.stat(path)
VpkStat(v, d, path) ==
    Let(VpkGetFileInfo(v, d, path), LAMBDA gi :
        IF gi.result # Undef
        THEN Outcome(gi.v, Stat(FileType_File, gi.result.length, 0), gi.io)
        ELSE IF path \in gi.v.dirs
        THEN Outcome(gi.v, Stat(FileType_Directory, 0, 0), gi.io)
        ELSE Outcome(gi.v, Undef, gi.io)
    )

\* ------------------------------------------- the archive reader in use

Range(seq) == {seq[k] : k \in 1..Len(seq)}

\* The absolute paths callers ask the archive for: its files, some of its
\* directories and a path it does not hold.
VpkFilePaths ==
    {<<"/", "a", "/", "c", Digits[k + 1], ".", "t">> : k \in ChunkIds} \cup
    { <<"/", "a", "/", "z", ".", "t">>, <<"/", "a", "/", "o", ".", "t">>,
      <<"/", "i", ".", "t">>, <<"/", "a", "/", "s", "/", "d", ".", "t">>,
      <<"/", "x", ".", "t">> }

VpkDirPaths == { <<>>, <<"/", "a">>, <<"/", "a", "/", "s">>, <<"/", "x">> }

\* The paths callers list: the directories, and a string that a record's
\* path begins with without being a directory of it (/i, of /i.t).
VpkListPaths == VpkDirPaths \cup { <<"/", "i">> }

VpkStatPaths ==
    VpkDirPaths \cup { <<"/", "a", "/", "c", "0", ".", "t">>,
                       <<"/", "a", "/", "z", ".", "t">> }

\* The backend files that may disappear and come back.
VpkDiskPaths == {ArchivePath} \cup {ChunkPath(k) : k \in ChunkIds}

Call(op, arg, force, pre, o) ==
    [op |-> op, arg |-> arg, force |-> force, pre |-> pre,
     result |-> o.result, io |-> o.io]

NoCall == [op |-> "none", arg |-> <<>>, force |-> FALSE,
           pre |-> VpkVersion_NONE, result |-> Undef, io |-> <<>>]

\* Whether the call parses the directory file, and the parse raises: parse
\* answers with what it raised, the other calls parse an instance never
\* parsed and swallow what the parse raises.
ParseAborts(v, d, op, o) ==
    \/ op = "parse" /\ o.result = Thrown
    \/ /\ op \notin {"parse", "cleanCache"}
       /\ v.version = VpkVersion_NONE
       /\ VpkParse(v, d, FALSE).result = Thrown

\* The history after a call: whether the load of a chunk file has failed so
\* far, and whether a parse has been aborted so far.
Record(h, v, d, op, o) ==
    [missed  |-> h.missed \/ \E p \in Range(o.io) : p # v.path /\ ~FsHas(d, p),
     aborted |-> h.aborted \/ ParseAborts(v, d, op, o)]

InitVpk ==
    /\ \E img \in ImageIds : disk = Disk(img, VpkImageEntries(img), <<>>)
    /\ \E enableCache \in BOOLEAN :
       \E path \in {ArchivePath, Slice(ArchivePath, 0, -4)} :
           vpk = NewVpkSystem(path, enableCache)
    /\ steam = Undef
    /\ game = Undef
    /\ lastOp = NoCall
    /\ hist = [missed |-> FALSE, aborted |-> FALSE]
    /\ calls = <<>>
    /\ cachecache = <<>>

VpkDone(op, arg, force, o) ==
    /\ vpk' = o.v
    /\ lastOp' = Call(op, arg, force, vpk.version, o)
    /\ hist' = Record(hist, vpk, disk, op, o)
    /\ UNCHANGED <<disk, steam, game, calls, cachecache>>

CallParse ==
    \E force \in BOOLEAN :
    \E o \in {VpkParse(vpk, disk, force)} : VpkDone("parse", <<>>, force, o)

CallValidate ==
    \E o \in {VpkValidate(vpk, disk)} : VpkDone("validate", <<>>, FALSE, o)

CallGetFileInfo ==
    \E path \in VpkStatPaths :
    \E o \in {VpkGetFileInfo(vpk, disk, path)} :
        VpkDone("getFileInfo", path, FALSE, o)

CallReadFile ==
    \E path \in VpkFilePaths :
    \E o \in {VpkReadFile(vpk, disk, path)} :
        VpkDone("readFile", path, FALSE, o)

CallReadDirectory ==
    \E path \in VpkListPaths :
    \E o \in {VpkReadDirectory(vpk, disk, path)} :
        VpkDone("readDirectory", path, FALSE, o)

CallStat ==
    \E path \in VpkStatPaths :
    \E o \in {VpkStat(vpk, disk, path)} : VpkDone("stat", path, FALSE, o)

CallCleanCache ==
    VpkDone("cleanCache", <<>>, FALSE,
            Outcome(VpkCleanCache(vpk), Undef, <<>>))

\* The environment removes a backend file, or puts it back unchanged.
EnvRemove ==
    /\ \E p \in VpkDiskPaths \ disk.gone :
           disk' = [disk EXCEPT !.gone = @ \cup {p}]
    /\ lastOp' = NoCall
    /\ UNCHANGED <<vpk, steam, game, hist, calls, cachecache>>

EnvRestore ==
    /\ \E p \in disk.gone : disk' = [disk EXCEPT !.gone = @ \ {p}]
    /\ lastOp' = NoCall
    /\ UNCHANGED <<vpk, steam, game, hist, calls, cachecache>>

NextVpk ==
    \/ CallParse
    \/ CallValidate
    \/ CallGetFileInfo
    \/ CallReadFile
    \/ CallReadDirectory
    \/ CallStat
    \/ CallCleanCache
    \/ EnvRemove
    \/ EnvRestore

SpecVpk == InitVpk /\ [][NextVpk]_vars

\* ------------------------------------------ properties of the archive reader

VpkReady == vpk.version \in {VpkVersion_V1, VpkVersion_V2}

\* The last call was readFile of a path that has a record in the file table.
ReadOfRecord ==
    /\ lastOp.op = "readFile"
    /\ VpkReady
    /\ HasFile(vpk.files, lastOp.arg)

\* The record read by the last call.
Rec == FileInfoOf(vpk.files, lastOp.arg)

\* Numbered chunk file idx is in the backend.
ChunkReadable(idx) == idx \in ChunkIds /\ FsHas(disk, ChunkPath(idx))

\* bytes [offset, offset + length) of a byte array that holds them.
Window(bytes, offset, length) == SubSeq(bytes, offset + 1, offset + length)

ExternalWindowExists(e) ==
    /\ e.length # 0
    /\ e.archiveIndex # INDEX_INLINE
    /\ ChunkReadable(e.archiveIndex)
    /\ e.offset + e.length <= Len(FsContent(disk, ChunkPath(e.archiveIndex)))

\* C2: readFile of a record with non-zero length and a chunk index other
\* than the inline sentinel, whose chunk file is readable (and holds the
\* window), returns the record's preload bytes followed by bytes
\* [offset, offset + length) of that chunk file.
C2_ExternalChunkRead ==
    (ReadOfRecord /\ ExternalWindowExists(Rec)) =>
        lastOp.result =
            Bytes(Rec.preloadBytes \o
                  Window(FsContent(disk, ChunkPath(Rec.archiveIndex)),
                         Rec.offset, Rec.length))

\* A record with a preload byte and a chunk window has been read.
C2_Witness ==
    /\ ReadOfRecord
    /\ ExternalWindowExists(Rec)
    /\ Rec.preloadBytes # <<>>
    /\ lastOp.result.kind = "bytes"

\* C3: readFile of a record whose length is 0 returns the record's preload
\* bytes whatever its chunk index is, and loads no chunk: the backend is read
\* for nothing but the directory file of a first, lazy parse.
C3_PreloadOnlyRead ==
    (ReadOfRecord /\ Rec.length = 0) =>
        /\ lastOp.result = Bytes(Rec.preloadBytes)
        /\ Range(lastOp.io) \subseteq {ArchivePath}
        /\ lastOp.pre # VpkVersion_NONE => lastOp.io = <<>>

\* A preload-only record whose chunk index names no file of the backend
\* has been read.
C3_Witness ==
    /\ ReadOfRecord
    /\ Rec.length = 0
    /\ Rec.preloadBytes # <<>>
    /\ Rec.archiveIndex # INDEX_INLINE
    /\ ~ChunkReadable(Rec.archiveIndex)
    /\ lastOp.result.kind = "bytes"

\* The tree-size field of the directory file of the backend image.
ImageTreeSize == GetU32(FsContent(disk, ArchivePath), 8)

\* C4: readFile of a record with the inline sentinel and non-zero length
\* takes the window from the directory file's own bytes at tree-size +
\* offset, and never asks the backend for a numbered chunk file.
C4_InlineRead ==
    (ReadOfRecord /\ Rec.archiveIndex = INDEX_INLINE /\ Rec.length # 0) =>
        LET bytes == FsContent(disk, ArchivePath)
            start == ImageTreeSize + Rec.offset
        IN  /\ Range(lastOp.io) \subseteq {ArchivePath}
            /\ lastOp.result.kind = "bytes" =>
                   lastOp.result.bytes =
                       Rec.preloadBytes \o Window(bytes, start, Rec.length)
            /\ (FsHas(disk, ArchivePath) /\ start + Rec.length <= Len(bytes))
                   => lastOp.result.kind = "bytes"

\* An inline record has been read from the directory file.
C4_Witness ==
    /\ ReadOfRecord
    /\ Rec.archiveIndex = INDEX_INLINE
    /\ Rec.length # 0
    /\ ArchivePath \in Range(lastOp.io)
    /\ lastOp.result.kind = "bytes"

C6_NoRereadWhenReady ==
    ( /\ lastOp.op = "parse"
      /\ ~lastOp.force
      /\ lastOp.pre \in {VpkVersion_V1, VpkVersion_V2} )
    => lastOp.io = <<>>

\* C7: once a parse has been aborted the reader is in the Error state:
\* validate() returns false, and readFile, readDirectory, getFileInfo and
\* stat serve nothing that was decoded.
C7_AbortIsError ==
    hist.aborted =>
        /\ vpk.version = VpkVersion_INVALID
        /\ lastOp.op = "validate" => lastOp.result = Bool(FALSE)
        /\ lastOp.op \in {"readFile", "readDirectory", "getFileInfo"}
               => lastOp.result = Undef
        /\ (lastOp.op = "stat" /\ lastOp.arg # <<>>) => lastOp.result = Undef

\* ------------------------------------------------ more of the JS strings

UpperCase == <<"A", "B", "C", "D", "E", "F", "G", "H", "I", "J", "K", "L", "M", "N", "O", "P", "Q", "R", "S", "T", "U", "V", "W", "X", "Y", "Z">>
LowerCase == <<"a", "b", "c", "d", "e", "f", "g", "h", "i", "j", "k", "l", "m", "n", "o", "p", "q", "r", "s", "t", "u", "v", "w", "x", "y", "z">>

\* String.prototype.toLowerCase
ToLowerCase(s) ==
    [k \in 1..Len(s) |->
        IF \E j \in 1..Len(UpperCase) : UpperCase[j] = s[k]
        THEN LowerCase[CHOOSE j \in 1..Len(UpperCase) : UpperCase[j] = s[k]]
        ELSE s[k]]

\* String.prototype.split with a one-character separator
RECURSIVE Split(_, _)
Split(s, sep) ==
    LET cut == IndexOf(s, sep, 0)
    IN  IF cut = -1 THEN <<s>>
        ELSE <<Slice(s, 0, cut)>> \o Split(SliceFrom(s, cut + 1), sep)

\* String.prototype.replaceAll: every doubled backslash becomes a slash.
RECURSIVE ReplaceAllBackslashes(_)
ReplaceAllBackslashes(s) ==
    IF Len(s) = 0 THEN s
    ELSE IF Len(s) >= 2 /\ s[1] = "\\" /\ s[2] = "\\"
    THEN <<"/">> \o ReplaceAllBackslashes(SliceFrom(s, 2))
    ELSE <<s[1]>> \o ReplaceAllBackslashes(SliceFrom(s, 1))

\* Array.prototype.includes
Includes(seq, x) == \E k \in 1..Len(seq) : seq[k] = x

\* ------------------------------------------------ key-value documents

\* A key with a string value, and a key with an ordered set of children.
KV(key, value) == [key |-> key, pair |-> TRUE, value |-> value]
KVSet(key, children) == [key |-> key, pair |-> FALSE, children |-> children]

\* The indexes of the children of a set that have the key and the shape.
KvHits(set, key, pair) ==
    {k \in 1..Len(set.children) :
        set.children[k].key = key /\ set.children[k].pair = pair}

KvFirst(set, key, pair, default) ==
    IF KvHits(set, key, pair) = {} THEN default
    ELSE set.children[LeastOr(KvHits(set, key, pair), 0)]

\* set.dir(key) and set.pair(key) raise when the child is missing;
\* set.dir(key, null) and set.pair(key, null) answer null.
KvDir(set, key) == KvFirst(set, key, FALSE, Thrown)
KvPair(set, key) == KvFirst(set, key, TRUE, Thrown)
KvDirOrNull(set, key) == KvFirst(set, key, FALSE, Undef)
KvPairOrNull(set, key) == KvFirst(set, key, TRUE, Undef)

\* pair.bool()
KvBool(pair) == pair.value \notin {<<"0">>, <<"f", "a", "l", "s", "e">>}

\* The documents the configuration files of the game image parse to.
LibraryFoldersDoc ==
    KVSet(<<>>, <<
      KVSet(<<"l", "i", "b", "r", "a", "r", "y", "f", "o", "l", "d", "e", "r", "s">>, <<
        KV(<<"c", "o", "n", "t", "e", "n", "t", "s", "t", "a", "t", "s", "i", "d">>, <<"7">>),
        KVSet(<<"0">>, <<
          KV(<<"p", "a", "t", "h">>, LibraryPath),
          KVSet(<<"a", "p", "p", "s">>, << KV(<<"1">>, <<"1", "0">>), KV(<<"2">>, <<"2", "0">>),
                              KV(<<"3">>, <<"3", "0">>) >>) >>) >>) >>)

ManifestDoc(installdir) ==
    KVSet(<<>>, <<
      KVSet(<<"A", "p", "p", "S", "t", "a", "t", "e">>, << KV(<<"i", "n", "s", "t", "a", "l", "l", "d", "i", "r">>, installdir) >>) >>)

GameInfoDoc ==
    KVSet(<<>>, <<
      KVSet(<<"G", "a", "m", "e", "I", "n", "f", "o">>, <<
        KV(<<"g", "a", "m", "e">>, <<"n">>),
        KVSet(<<"F", "i", "l", "e", "S", "y", "s", "t", "e", "m">>, <<
          KV(<<"S", "t", "e", "a", "m", "A", "p", "p", "I", "d">>, <<"1">>),
          KVSet(<<"S", "e", "a", "r", "c", "h", "P", "a", "t", "h", "s">>, <<
            KV(<<"G", "a", "m", "e", "+", "M", "o", "d">>, <<"|", "g", "a", "m", "e", "i", "n", "f", "o", "_", "p", "a", "t", "h", "|", "d">>),
            KV(<<"G", "a", "m", "e">>, <<"|", "g", "a", "m", "e", "i", "n", "f", "o", "_", "p", "a", "t", "h", "|", "p", ".", "v", "p", "k">>),
            KV(<<"M", "o", "d">>, <<"|", "a", "l", "l", "_", "s", "o", "u", "r", "c", "e", "_", "e", "n", "g", "i", "n", "e", "_", "p", "a", "t", "h", "s", "|", "e">>),
            KV(<<"G", "a", "m", "e">>, <<"r">>),
            KV(<<"M", "o", "d">>, <<"|", "g", "a", "m", "e", "i", "n", "f", "o", "_", "p", "a", "t", "h", "|", "n", "o", "w", "h", "e", "r", "e">>) >>) >>),
        KVSet(<<"m", "o", "u", "n", "t">>, <<
          KVSet(<<"3">>, << KVSet(<<"h", "3">>, << KV(<<"d", "i", "r">>, <<"k">>) >>) >>),
          KVSet(<<"2">>, <<
            KV(<<"e", "n", "a", "b", "l", "e", "d">>, <<"1">>),
            KVSet(<<"h", "2">>, << KV(<<"v", "p", "k">>, <<"q">>), KV(<<"d", "i", "r">>, <<"k">>),
                              KV(<<"d", "i", "r">>, <<"k", "2">>) >>) >>),
          KVSet(<<"2">>, <<
            KV(<<"e", "n", "a", "b", "l", "e", "d">>, <<"0">>),
            KVSet(<<"h", "2">>, << KV(<<"d", "i", "r">>, <<"k">>) >>) >>) >>) >>) >>)

KvDocs ==
    [p \in { <<"/", "s", "/", "s", "t", "e", "a", "m", "a", "p", "p", "s", "/", "l", "i", "b", "r", "a", "r", "y", "f", "o", "l", "d", "e", "r", "s", ".", "v", "d", "f">>,
             <<"/", "l", "/", "s", "t", "e", "a", "m", "a", "p", "p", "s", "/", "a", "p", "p", "m", "a", "n", "i", "f", "e", "s", "t", "_", "1", ".", "a", "c", "f">>,
             <<"/", "l", "/", "s", "t", "e", "a", "m", "a", "p", "p", "s", "/", "a", "p", "p", "m", "a", "n", "i", "f", "e", "s", "t", "_", "2", ".", "a", "c", "f">>,
             <<"/", "m", "/", "g", "a", "m", "e", "i", "n", "f", "o", ".", "t", "x", "t">> } |->
        IF p = <<"/", "s", "/", "s", "t", "e", "a", "m", "a", "p", "p", "s", "/", "l", "i", "b", "r", "a", "r", "y", "f", "o", "l", "d", "e", "r", "s", ".", "v", "d", "f">> THEN LibraryFoldersDoc
        ELSE IF p = <<"/", "l", "/", "s", "t", "e", "a", "m", "a", "p", "p", "s", "/", "a", "p", "p", "m", "a", "n", "i", "f", "e", "s", "t", "_", "1", ".", "a", "c", "f">>
        THEN ManifestDoc(<<"g">>)
        ELSE IF p = <<"/", "l", "/", "s", "t", "e", "a", "m", "a", "p", "p", "s", "/", "a", "p", "p", "m", "a", "n", "i", "f", "e", "s", "t", "_", "2", ".", "a", "c", "f">>
        THEN ManifestDoc(<<"h">>)
        ELSE GameInfoDoc]

\* readKV(fs, path): the document of a readable configuration file;
\* undefined when the file cannot be read or its text does not parse.
ReadKV(d, path) ==
    IF FsReadFile(d, path) \in {Undef, Thrown} THEN Undef
    ELSE IF path \in DOMAIN d.docs THEN d.docs[path]
    ELSE Undef

\* ------------------------------------------------------------ SteamCache

InitState_None == 0
InitState_Ready == 1
InitState_Error == 2

\* new SteamCache(fs, root)
NewSteamCache(root) ==
    [root |-> root, initialized |-> InitState_None,
     applibcache |-> <<>>, appdircache |-> <<>>]

SteamOutcome(s, result, io) == [s |-> s, result |-> result, io |-> io]

\* The loop over the apps of one library.
RECURSIVE SteamParseApps(_, _, _, _)
SteamParseApps(cache, apps, k, lib_path) ==
    IF k > Len(apps) THEN cache
    ELSE SteamParseApps((apps[k].key :> lib_path) @@ cache, apps, k + 1,
                        lib_path)

\* The loop over the libraries: [ok, cache]; not ok when a library lacks its
\* path or its apps (the throw).
RECURSIVE SteamParseLibraries(_, _, _)
SteamParseLibraries(cache, libs, k) ==
    IF k > Len(libs) THEN [ok |-> TRUE, cache |-> cache]
    ELSE IF libs[k].pair THEN SteamParseLibraries(cache, libs, k + 1)
    ELSE IF KvPair(libs[k], <<"p", "a", "t", "h">>) = Thrown
            \/ KvDir(libs[k], <<"a", "p", "p", "s">>) = Thrown
    THEN [ok |-> FALSE, cache |-> cache]
    ELSE SteamParseLibraries(
             SteamParseApps(cache, KvDir(libs[k], <<"a", "p", "p", "s">>).children, 1,
                 ReplaceAllBackslashes(KvPair(libs[k], <<"p", "a", "t", "h">>).value)),
             libs, k + 1)

\* join(this.root, 'steamapps/libraryfolders.vdf')
LibraryFoldersFile(root) ==
    Join(root, <<"s", "t", "e", "a", "m", "a", "p", "p", "s", "/", "l", "i", "b", "r", "a", "r", "y", "f", "o", "l", "d", "e", "r", "s", ".", "v", "d", "f">>)

\* SteamCache.parse() from `await readKV(...)' on, on the instance s0 already
\* marked Error.
SteamParseRead(s0, d) ==
    Let(ReadKV(d, LibraryFoldersFile(s0.root)), LAMBDA doc :
        LET io   == <<LibraryFoldersFile(s0.root)>>
            dirs == KvDir(doc, <<"l", "i", "b", "r", "a", "r", "y", "f", "o", "l", "d", "e", "r", "s">>)
        IN  IF doc = Undef THEN SteamOutcome(s0, Bool(FALSE), io)
            ELSE IF dirs = Thrown THEN SteamOutcome(s0, Thrown, io)
            ELSE
            Let(SteamParseLibraries(s0.applibcache, dirs.children, 1),
                LAMBDA libs :
                IF ~libs.ok
                THEN SteamOutcome([s0 EXCEPT !.applibcache = libs.cache],
                                  Thrown, io)
                ELSE SteamOutcome([s0 EXCEPT !.applibcache = libs.cache,
                                             !.initialized = InitState_Ready],
                                  Bool(TRUE), io)
            )
    )

\* SteamCache.parse()
SteamParse(s, d) ==
    IF s.initialized # InitState_None
    THEN SteamOutcome(s, Bool(s.initialized = InitState_Ready), <<>>)
    ELSE SteamParseRead([s EXCEPT !.initialized = InitState_Error], d)

\* join(lib_path, 'steamapps/appmanifest_' + appid + '.acf')
ManifestFile(lib_path, appid) ==
    Join(lib_path, <<"s", "t", "e", "a", "m", "a", "p", "p", "s", "/", "a", "p", "p", "m", "a", "n", "i", "f", "e", "s", "t", "_">> \o appid \o <<".", "a", "c", "f">>)

\* The install directory a manifest names, joined under the library;
\* undefined when the manifest lacks AppState or installdir.
InstallDir(lib_path, doc) ==
    IF KvDir(doc, <<"A", "p", "p", "S", "t", "a", "t", "e">>) = Thrown THEN Undef
    ELSE IF KvPair(KvDir(doc, <<"A", "p", "p", "S", "t", "a", "t", "e">>),
                   <<"i", "n", "s", "t", "a", "l", "l", "d", "i", "r">>) = Thrown
    THEN Undef
    ELSE Text(Join3(lib_path,
                    <<"s", "t", "e", "a", "m", "a", "p", "p", "s", "/", "c", "o", "m", "m", "o", "n">>,
                    KvPair(KvDir(doc, <<"A", "p", "p", "S", "t", "a", "t", "e">>),
                           <<"i", "n", "s", "t", "a", "l", "l", "d", "i", "r">>).value
                        \o <<"/">>))

\* this.appdircache[appid] = found; return found
SteamCacheDir(s, appid, found, io) ==
    SteamOutcome([s EXCEPT !.appdircache = (appid :> found) @@ @], found, io)

\* The two early returns of parseGame: no library holds the application, or
\* it has an entry in appdircache and the call is not forced.
SteamParseGameSkips(s, appid, force) ==
    \/ appid \notin DOMAIN s.applibcache
    \/ s.applibcache[appid] = <<>>
    \/ ~force /\ appid \in DOMAIN s.appdircache

\* SteamCache.parseGame from `await readKV(...)' on.
SteamParseGameRead(s, d, appid) ==
    Let(ReadKV(d, ManifestFile(s.applibcache[appid], appid)), LAMBDA doc :
        IF doc = Undef
        THEN SteamOutcome(s, Undef,
                          <<ManifestFile(s.applibcache[appid], appid)>>)
        ELSE SteamCacheDir(s, appid, InstallDir(s.applibcache[appid], doc),
                           <<ManifestFile(s.applibcache[appid], appid)>>)
    )

\* SteamCache.parseGame(appid, force)
SteamParseGame(s, d, appid, force) ==
    IF SteamParseGameSkips(s, appid, force) THEN SteamOutcome(s, Undef, <<>>)
    ELSE SteamParseGameRead(s, d, appid)

\* return this.appdircache[appid], after parseGame
SteamLookup(g, appid, io) ==
    SteamOutcome(g.s,
                 IF appid \in DOMAIN g.s.appdircache
                 THEN g.s.appdircache[appid] ELSE Undef,
                 io \o g.io)

\* SteamCache.findGame(appid)
SteamFindGame(s, d, appid) ==
    Let(IF s.initialized = InitState_None THEN SteamParse(s, d)
        ELSE SteamOutcome(s, Undef, <<>>), LAMBDA p :
        IF p.result = Thrown THEN p
        ELSE SteamLookup(IF appid \notin DOMAIN p.s.appdircache
                         THEN SteamParseGame(p.s, d, appid, FALSE)
                         ELSE SteamOutcome(p.s, Undef, <<>>),
                         appid, p.io)
    )

\* ---------------------------------------------------------- FolderSystem

\* new FolderSystem(fs, root)
NewFolderSystem(root) == [root |-> root]

\* FolderSystem.validate()
FolderValidate(f, d) == FsStat(d, f.root) # Undef

\* FolderSystem.getPath(path)
FolderGetPath(f, path) == Join(f.root, path)

\* FolderSystem.readFile(path)
FolderReadFile(f, d, path) == Caught(FsReadFile(d, Join(f.root, path)))

\* FolderSystem.readDirectory(path)
FolderReadDirectory(f, d, path) == FsReadDirectory(d, Join(f.root, path))

\* FolderSystem.stat(path)
FolderStat(f, d, path) == FsStat(d, Join(f.root, path))

\* VpkSystem.getPath(path)
VpkGetPath(v, path) == Join(v.path, path)

\* ------------------------------------------------- search-path resolution

GAMEINFO_PREFIX == <<"|", "g", "a", "m", "e", "i", "n", "f", "o", "_", "p", "a", "t", "h", "|">>
ALL_SOURCE_PREFIX == <<"|", "a", "l", "l", "_", "s", "o", "u", "r", "c", "e", "_", "e", "n", "g", "i", "n", "e", "_", "p", "a", "t", "h", "s", "|">>

\* A variant that resolves an install-relative path against the parent
\* directory when the install directory is unknown.
ParseSearchPath_ModFallback(path, gamePath, modPath, giPath) ==
    LET pathLower == ToLowerCase(path)
    IN  IF StartsWith(pathLower, GAMEINFO_PREFIX)
        THEN Text(Join(giPath, SliceFrom(path, Len(GAMEINFO_PREFIX))))
        ELSE IF StartsWith(pathLower, ALL_SOURCE_PREFIX)
        THEN Text(Join(modPath, SliceFrom(path, Len(ALL_SOURCE_PREFIX))))
        ELSE IF gamePath = Undef THEN Text(Join(modPath, path))
        ELSE Text(Join(gamePath.val, path))

\* parseSearchPath(path, gamePath, modPath, giPath)
ParseSearchPath(path, gamePath, modPath, giPath) ==
    LET pathLower == ToLowerCase(path)
    IN  IF StartsWith(pathLower, GAMEINFO_PREFIX)
        THEN Text(Join(giPath, SliceFrom(path, Len(GAMEINFO_PREFIX))))
        ELSE IF StartsWith(pathLower, ALL_SOURCE_PREFIX)
        THEN Text(Join(modPath, SliceFrom(path, Len(ALL_SOURCE_PREFIX))))
        ELSE IF gamePath = Undef THEN Undef
        ELSE Text(Join(gamePath.val, path))

\* globSync(pattern, {absolute: true}) for a pattern without wildcards, or
\* with the wildcard * as its last segment: the paths that exist.
GlobSync(d, pattern) ==
    IF Basename(pattern) # <<"*">>
    THEN IF FsStat(d, pattern) # Undef THEN <<pattern>> ELSE <<>>
    ELSE
    Let(FsReadDirectory(d, Dirname(pattern)), LAMBDA listed :
        IF listed = Undef THEN <<>>
        ELSE [k \in 1..Len(listed.items) |->
                 Join(Dirname(pattern), listed.items[k][1])]
    )

\* parseGlobSearchPath(fs, sp, gamePath, modPath, giPath); node tells whether
\* fs is a NodeSystem.
ParseGlobSearchPath(node, d, sp, gamePath, modPath, giPath) ==
    Let(ParseSearchPath(sp, gamePath, modPath, giPath), LAMBDA globbyPath :
        IF ~node /\ globbyPath # Undef THEN List(<<globbyPath.val>>)
        ELSE IF globbyPath = Undef THEN Undef
        ELSE List(GlobSync(d, globbyPath.val))
    )

\* ------------------------------------------------------------ GameSystem

\* new GameSystem(fs, root, steam); node tells whether fs is a NodeSystem.
\* Provider objects live in heap; providers and providersSorted hold
\* references (heap indexes) to them.
NewGameSystem(root, node) ==
    [modroot         |-> root,
     node            |-> node,
     name            |-> Undef,
     appid           |-> Undef,
     gameroot        |-> Undef,
     initialized     |-> InitState_None,
     heap            |-> <<>>,
     providers       |-> <<>>,
     providersSorted |-> <<>>]

\* A provider: its qualifiers and its system, a VpkSystem or a FolderSystem.
Provider(qualifiers, kind, sys) ==
    [tags |-> qualifiers, kind |-> kind, sys |-> sys]

\* A variant that puts the new provider in front of the list.
PushProvider_Front(g, qualifiers, kind, sys) ==
    [g EXCEPT !.heap = Append(@, Provider(qualifiers, kind, sys)),
              !.providers = <<Len(g.heap) + 1>> \o @]

\* this.providers.push([qualifiers, system])
PushProvider(g, qualifiers, kind, sys) ==
    [g EXCEPT !.heap = Append(@, Provider(qualifiers, kind, sys)),
              !.providers = Append(@, Len(g.heap) + 1)]

GameOutcome(g, s, result, io) ==
    [g |-> g, s |-> s, result |-> result, io |-> io]

\* One item of a mounted folder: 'vpk' pushes an archive (the single-file
\* name when it exists, else the chunked one), 'dir' pushes a folder.
MountItem(g, d, key, item_path) ==
    IF key = <<"v", "p", "k">>
    THEN PushProvider(g, <<<<"g", "a", "m", "e">>>>, "vpk",
             NewVpkSystem(
                 IF FsStat(d, item_path \o <<".", "v", "p", "k">>) # Undef
                 THEN item_path \o <<".", "v", "p", "k">>
                 ELSE item_path \o <<"_", "d", "i", "r", ".", "v", "p", "k">>,
                 TRUE))
    ELSE IF key = <<"d", "i", "r">>
    THEN PushProvider(g, <<<<"g", "a", "m", "e">>>>, "dir",
                      NewFolderSystem(item_path))
    ELSE g

\* The loop over the items of one mounted folder.
RECURSIVE MountItemsLoop(_, _, _, _, _, _)
MountItemsLoop(g, d, items, k, dir_mount_root, folder_key) ==
    IF k > Len(items) THEN g
    ELSE IF ~items[k].pair
    THEN MountItemsLoop(g, d, items, k + 1, dir_mount_root, folder_key)
    ELSE MountItemsLoop(
             MountItem(g, d, items[k].key,
                       Join3(dir_mount_root, folder_key, items[k].value)),
             d, items, k + 1, dir_mount_root, folder_key)

\* The loop over the folders of one mount.
RECURSIVE MountFoldersLoop(_, _, _, _, _)
MountFoldersLoop(g, d, folders, k, dir_mount_root) ==
    IF k > Len(folders) THEN g
    ELSE IF folders[k].pair
    THEN MountFoldersLoop(g, d, folders, k + 1, dir_mount_root)
    ELSE MountFoldersLoop(
             MountItemsLoop(g, d, folders[k].children, 1, dir_mount_root,
                            folders[k].key),
             d, folders, k + 1, dir_mount_root)

\* A variant of the mounts loop that gives up the parse at a mount whose
\* application cannot be found.
RECURSIVE MountsLoop_Abort(_, _, _, _, _, _)
MountsLoop_Abort(g, s, d, mounts, k, io) ==
    IF k > Len(mounts) THEN GameOutcome(g, s, Undef, io)
    ELSE IF mounts[k].pair THEN MountsLoop_Abort(g, s, d, mounts, k + 1, io)
    ELSE IF KvPairOrNull(mounts[k], <<"e", "n", "a", "b", "l", "e", "d">>) # Undef
            /\ ~KvBool(KvPairOrNull(mounts[k], <<"e", "n", "a", "b", "l", "e", "d">>))
    THEN MountsLoop_Abort(g, s, d, mounts, k + 1, io)
    ELSE
    Let(SteamFindGame(s, d, mounts[k].key), LAMBDA find :
        IF find.result = Thrown \/ find.result = Undef
        THEN GameOutcome(g, find.s, Thrown, io \o find.io)
        ELSE MountsLoop_Abort(
                 MountFoldersLoop(g, d, mounts[k].children, 1,
                                  find.result.val),
                 find.s, d, mounts, k + 1, io \o find.io)
    )

\* The loop over the collected mounts.
RECURSIVE MountsLoop(_, _, _, _, _, _)
MountsLoop(g, s, d, mounts, k, io) ==
    IF k > Len(mounts) THEN GameOutcome(g, s, Undef, io)
    ELSE IF mounts[k].pair THEN MountsLoop(g, s, d, mounts, k + 1, io)
    ELSE IF KvPairOrNull(mounts[k], <<"e", "n", "a", "b", "l", "e", "d">>) # Undef
            /\ ~KvBool(KvPairOrNull(mounts[k], <<"e", "n", "a", "b", "l", "e", "d">>))
    THEN MountsLoop(g, s, d, mounts, k + 1, io)
    ELSE
    Let(SteamFindGame(s, d, mounts[k].key), LAMBDA find :
        IF find.result = Thrown
        THEN GameOutcome(g, find.s, Thrown, io \o find.io)
        ELSE IF find.result = Undef \/ find.result.val = <<>>
        THEN MountsLoop(g, find.s, d, mounts, k + 1, io \o find.io)
        ELSE MountsLoop(
                 MountFoldersLoop(g, d, mounts[k].children, 1,
                                  find.result.val),
                 find.s, d, mounts, k + 1, io \o find.io)
    )

\* path.key.toLowerCase().split('+').map(x => x.trim())
TrimAll(parts) == [j \in 1..Len(parts) |-> Trim(parts[j])]

PathQualifiers(key) == TrimAll(Split(ToLowerCase(key), "+"))

\* The loop over the matches of one search path.
RECURSIVE ParsedLoop(_, _, _, _)
ParsedLoop(g, parsed, k, key) ==
    IF k > Len(parsed) THEN g
    ELSE ParsedLoop(
             IF EndsWith(parsed[k], <<".", "v", "p", "k">>)
             THEN PushProvider(g, PathQualifiers(key), "vpk",
                               NewVpkSystem(parsed[k], TRUE))
             ELSE PushProvider(g, PathQualifiers(key), "dir",
                               NewFolderSystem(parsed[k])),
             parsed, k + 1, key)

\* A search path that ends in '.vpk' names the archive's directory file.
RawPath(value) ==
    IF EndsWith(value, <<".", "v", "p", "k">>)
    THEN Slice(value, 0, -4) \o <<"_", "d", "i", "r", ".", "v", "p", "k">>
    ELSE value

\* The loop over the search-path declarations.
RECURSIVE SearchPathsLoop(_, _, _, _, _, _, _)
SearchPathsLoop(g, d, paths, k, dir_game, dir_cwd, dir_gi) ==
    IF k > Len(paths) THEN g
    ELSE IF ~paths[k].pair
    THEN SearchPathsLoop(g, d, paths, k + 1, dir_game, dir_cwd, dir_gi)
    ELSE
    Let(ParseGlobSearchPath(g.node, d, RawPath(paths[k].value), dir_game,
                            dir_cwd, dir_gi), LAMBDA parsed :
        IF parsed = Undef
        THEN SearchPathsLoop(g, d, paths, k + 1, dir_game, dir_cwd, dir_gi)
        ELSE SearchPathsLoop(ParsedLoop(g, parsed.items, 1, paths[k].key),
                             d, paths, k + 1, dir_game, dir_cwd, dir_gi)
    )

\* provider[1].validate(): the provider afterwards, and the answer.
ProviderValidate(p, d) ==
    IF p.kind # "vpk"
    THEN [p |-> p, result |-> Bool(FolderValidate(p.sys, d)), io |-> <<>>]
    ELSE
    Let(VpkValidate(p.sys, d), LAMBDA o :
        [p |-> [p EXCEPT !.sys = o.v], result |-> o.result, io |-> o.io]
    )

\* A variant of the validation loop that keeps every provider.
RECURSIVE ValidateLoop_KeepAll(_, _, _, _, _, _)
ValidateLoop_KeepAll(heap, d, refs, k, working, io) ==
    IF k > Len(refs) THEN [heap |-> heap, working |-> working, io |-> io]
    ELSE
    Let(ProviderValidate(heap[refs[k]], d), LAMBDA o :
        ValidateLoop_KeepAll([heap EXCEPT ![refs[k]] = o.p], d, refs, k + 1,
                             Append(working, refs[k]), io \o o.io)
    )

\* The validation loop: the heap afterwards and the working providers.
RECURSIVE ValidateLoop(_, _, _, _, _, _)
ValidateLoop(heap, d, refs, k, working, io) ==
    IF k > Len(refs) THEN [heap |-> heap, working |-> working, io |-> io]
    ELSE
    Let(ProviderValidate(heap[refs[k]], d), LAMBDA o :
        ValidateLoop([heap EXCEPT ![refs[k]] = o.p], d, refs, k + 1,
                     IF o.result.val THEN Append(working, refs[k])
                     ELSE working,
                     io \o o.io)
    )

\* A comparator that keeps the declaration order.
Compare_DeclarationOrder(a, b) == 0

\* The comparator of the archive-prioritized view:
\* +(b.kind === 'vpk') - +(a.kind === 'vpk')
Compare(a, b) ==
    (IF b.kind = "vpk" THEN 1 ELSE 0) - (IF a.kind = "vpk" THEN 1 ELSE 0)

\* Array.prototype.toSorted, a stable sort: each element goes after the last
\* element that does not compare greater than it.
RECURSIVE ToSorted(_, _)
ToSorted(heap, refs) ==
    IF refs = <<>> THEN <<>>
    ELSE
    LET front == ToSorted(heap, SubSeq(refs, 1, Len(refs) - 1))
        x     == refs[Len(refs)]
        keep  == {j \in 0..Len(front) :
                     \A i \in (j + 1)..Len(front) :
                         Compare(heap[front[i]], heap[x]) > 0}
        at    == CHOOSE j \in keep : \A i \in keep : j <= i
    IN  SubSeq(front, 1, at) \o <<x>> \o SubSeq(front, at + 1, Len(front))

\* The end of parse: the working providers become the declaration-order
\* list, their stable archive-first sort the prioritized view.
GameParseReady(g3, s, checked) ==
    GameOutcome([g3 EXCEPT !.heap = checked.heap,
                           !.providers = checked.working,
                           !.providersSorted =
                               ToSorted(checked.heap, checked.working),
                           !.initialized = InitState_Ready],
                s, Bool(TRUE), checked.io)

\* "Filter down providers to the ones that actually work"
GameParseValidate(g3, s, d, io) ==
    GameParseReady(g3, s, ValidateLoop(g3.heap, d, g3.providers, 1, <<>>, io))

\* "Parse paths", after the mounts
GameParsePaths(mounted, d, paths, dir_game, dir_gi) ==
    IF mounted.result = Thrown THEN mounted
    ELSE GameParseValidate(
             SearchPathsLoop(mounted.g, d, paths, 1, dir_game,
                             Normalize(Join(dir_gi, <<".", ".", "/">>)),
                             dir_gi),
             mounted.s, d, mounted.io)

\* join(this.modroot, 'cfg', 'mounts.kv')
MountsFile(modroot) ==
    Join3(modroot, <<"c", "f", "g">>, <<"m", "o", "u", "n", "t", "s", ".", "k", "v">>)

\* The collected mounts: those of gameinfo, then those of cfg/mounts.kv.
Mounts(gi_mounts, cfg_mounts) ==
    (IF gi_mounts = Undef THEN <<>> ELSE gi_mounts.children)
        \o (IF cfg_mounts = Undef THEN <<>> ELSE cfg_mounts.children)

\* "Setup directories" and "Read Strata game mounts if present"
GameParseMounts(g1, d, gi, find, io0) ==
    IF find.result = Thrown
    THEN GameOutcome(g1, find.s, Thrown, io0 \o find.io)
    ELSE GameParsePaths(
             MountsLoop([g1 EXCEPT !.gameroot = find.result], find.s, d,
                        Mounts(KvDirOrNull(gi.top, <<"m", "o", "u", "n", "t">>),
                               ReadKV(d, MountsFile(g1.modroot))),
                        1, io0 \o find.io \o <<MountsFile(g1.modroot)>>),
             d, gi.paths.children, find.result, g1.modroot)

\* "Set title"
GameParseTitle(g0, s, d, gi, io0) ==
    IF gi = Thrown THEN GameOutcome(g0, s, Thrown, io0)
    ELSE GameParseMounts([g0 EXCEPT !.name = Text(gi.name.value),
                                    !.appid = Text(gi.appid.value)],
                         d, gi, SteamFindGame(s, d, gi.appid.value), io0)

\* gi_root, gi_appid, gi_paths and the title pair: Thrown when one is
\* missing.
GameInfoFields(top, root) ==
    IF root = Thrown THEN Thrown
    ELSE IF KvPair(root, <<"S", "t", "e", "a", "m", "A", "p", "p", "I", "d">>) = Thrown
            \/ KvDir(root, <<"S", "e", "a", "r", "c", "h", "P", "a", "t", "h", "s">>) = Thrown
            \/ KvPair(top, <<"g", "a", "m", "e">>) = Thrown
    THEN Thrown
    ELSE [top   |-> top,
          appid |-> KvPair(root, <<"S", "t", "e", "a", "m", "A", "p", "p", "I", "d">>),
          paths |-> KvDir(root, <<"S", "e", "a", "r", "c", "h", "P", "a", "t", "h", "s">>),
          name  |-> KvPair(top, <<"g", "a", "m", "e">>)]

GameInfoTop(top) ==
    IF top = Thrown THEN Thrown
    ELSE GameInfoFields(top, KvDir(top, <<"F", "i", "l", "e", "S", "y", "s", "t", "e", "m">>))

\* join(this.modroot, 'gameinfo.txt')
GameInfoFile(modroot) ==
    Join(modroot, <<"g", "a", "m", "e", "i", "n", "f", "o", ".", "t", "x", "t">>)

\* "Read & parse gameinfo"
GameParseInfo(g0, s, d, gameinfo) ==
    IF gameinfo = Undef
    THEN GameOutcome(g0, s, Bool(FALSE), <<GameInfoFile(g0.modroot)>>)
    ELSE GameParseTitle(g0, s, d,
                        GameInfoTop(KvDir(gameinfo, <<"G", "a", "m", "e", "I", "n", "f", "o">>)),
                        <<GameInfoFile(g0.modroot)>>)

\* GameSystem.parse()
GameParse(g, s, d) ==
    GameParseInfo([g EXCEPT !.initialized = InitState_Error], s, d,
                  ReadKV(d, GameInfoFile(g.modroot)))

\* The answer of validate after the parse it may have made.
GameValidated(p) ==
    GameOutcome(p.g, p.s,
                Bool(p.result # Thrown /\ p.g.initialized = InitState_Ready),
                p.io)

\* A variant of validate that parses again after a failed initialization.
GameValidate_Retry(g, s, d) ==
    GameValidated(IF g.initialized # InitState_Ready THEN GameParse(g, s, d)
                  ELSE GameOutcome(g, s, Undef, <<>>))

\* GameSystem.validate()
GameValidate(g, s, d) ==
    GameValidated(IF g.initialized = InitState_None THEN GameParse(g, s, d)
                  ELSE GameOutcome(g, s, Undef, <<>>))

\* A qualifier check that lets every provider through.
Admits_Everything(qualifier, qualifiers) == TRUE

\* Whether a query with the qualifier consults a provider with the
\* qualifiers: not (qualifier && !qualifiers.includes(qualifier)).
Admits(qualifier, qualifiers) ==
    ~(qualifier # Undef /\ qualifier.val # <<>>
      /\ ~Includes(qualifiers, qualifier.val))

\* system.readFile(path), system.stat(path), system.readDirectory(path) and
\* system.getPath(path) of a provider: the provider afterwards and the answer.
ProviderOutcome(p, o) ==
    [p |-> [p EXCEPT !.sys = o.v], result |-> o.result, io |-> o.io]

ProviderReadFile(p, d, path) ==
    IF p.kind = "vpk" THEN ProviderOutcome(p, VpkReadFile(p.sys, d, path))
    ELSE [p |-> p, result |-> FolderReadFile(p.sys, d, path),
          io |-> <<Join(p.sys.root, path)>>]

ProviderStat(p, d, path) ==
    IF p.kind = "vpk" THEN ProviderOutcome(p, VpkStat(p.sys, d, path))
    ELSE [p |-> p, result |-> FolderStat(p.sys, d, path), io |-> <<>>]

ProviderReadDirectory(p, d, path) ==
    IF p.kind = "vpk"
    THEN ProviderOutcome(p, VpkReadDirectory(p.sys, d, path))
    ELSE [p |-> p, result |-> FolderReadDirectory(p.sys, d, path),
          io |-> <<>>]

ProviderGetPath(p, path) ==
    IF p.kind = "vpk" THEN VpkGetPath(p.sys, path)
    ELSE FolderGetPath(p.sys, path)

\* A variant of the readFile loop that answers with the first provider it
\* consults, whether or not that provider has the file.
RECURSIVE GameReadFileLoop_NoFallThrough(_, _, _, _, _, _, _, _)
GameReadFileLoop_NoFallThrough(g, s, d, refs, k, path, qualifier, io) ==
    IF k > Len(refs) THEN GameOutcome(g, s, Undef, io)
    ELSE IF ~Admits(qualifier, g.heap[refs[k]].tags)
    THEN GameReadFileLoop_NoFallThrough(g, s, d, refs, k + 1, path,
                                        qualifier, io)
    ELSE
    Let(ProviderReadFile(g.heap[refs[k]], d, path), LAMBDA o :
        GameOutcome([g EXCEPT !.heap[refs[k]] = o.p], s, o.result,
                    io \o o.io)
    )

\* The loop of GameSystem.readFile over the selected ordering.
RECURSIVE GameReadFileLoop(_, _, _, _, _, _, _, _)
GameReadFileLoop(g, s, d, refs, k, path, qualifier, io) ==
    IF k > Len(refs) THEN GameOutcome(g, s, Undef, io)
    ELSE IF ~Admits(qualifier, g.heap[refs[k]].tags)
    THEN GameReadFileLoop(g, s, d, refs, k + 1, path, qualifier, io)
    ELSE
    Let(ProviderReadFile(g.heap[refs[k]], d, path), LAMBDA o :
        IF o.result = Undef
        THEN GameReadFileLoop([g EXCEPT !.heap[refs[k]] = o.p], s, d, refs,
                              k + 1, path, qualifier, io \o o.io)
        ELSE GameOutcome([g EXCEPT !.heap[refs[k]] = o.p], s, o.result,
                         io \o o.io)
    )

GameReadFileIn(v, d, path, qualifier, preferVpk) ==
    IF ~v.result.val THEN GameOutcome(v.g, v.s, Undef, v.io)
    ELSE GameReadFileLoop(v.g, v.s, d,
             IF preferVpk THEN v.g.providersSorted ELSE v.g.providers,
             1, path, qualifier, v.io)

\* GameSystem.readFile(path, qualifier, preferVpk)
GameReadFile(g, s, d, path, qualifier, preferVpk) ==
    GameReadFileIn(GameValidate(g, s, d), d, path, qualifier, preferVpk)

\* The loop of GameSystem.getPath over the selected ordering.
RECURSIVE GameGetPathLoop(_, _, _, _, _, _, _, _)
GameGetPathLoop(g, s, d, refs, k, path, qualifier, io) ==
    IF k > Len(refs) THEN GameOutcome(g, s, Undef, io)
    ELSE IF ~Admits(qualifier, g.heap[refs[k]].tags)
    THEN GameGetPathLoop(g, s, d, refs, k + 1, path, qualifier, io)
    ELSE
    Let(ProviderStat(g.heap[refs[k]], d, path), LAMBDA o :
        IF o.result = Undef
        THEN GameGetPathLoop([g EXCEPT !.heap[refs[k]] = o.p], s, d, refs,
                             k + 1, path, qualifier, io \o o.io)
        ELSE GameOutcome([g EXCEPT !.heap[refs[k]] = o.p], s,
                         IF o.result = Thrown THEN Thrown
                         ELSE Text(ProviderGetPath(o.p, path)),
                         io \o o.io)
    )

GameGetPathIn(v, d, path, qualifier, preferVpk) ==
    IF ~v.result.val THEN GameOutcome(v.g, v.s, Undef, v.io)
    ELSE GameGetPathLoop(v.g, v.s, d,
             IF preferVpk THEN v.g.providersSorted ELSE v.g.providers,
             1, path, qualifier, v.io)

\* GameSystem.getPath(path, qualifier, preferVpk)
GameGetPath(g, s, d, path, qualifier, preferVpk) ==
    GameGetPathIn(GameValidate(g, s, d), d, path, qualifier, preferVpk)

\* The property names every object inherits from Object.prototype: looking
\* one of them up on the object literal found answers a truthy value.
ObjectPrototypeKeys ==
    { <<"c", "o", "n", "s", "t", "r", "u", "c", "t", "o", "r">>, <<"h", "a", "s", "O", "w", "n", "P", "r", "o", "p", "e", "r", "t", "y">>, <<"i", "s", "P", "r", "o", "t", "o", "t", "y", "p", "e", "O", "f">>,
      <<"p", "r", "o", "p", "e", "r", "t", "y", "I", "s", "E", "n", "u", "m", "e", "r", "a", "b", "l", "e">>, <<"t", "o", "L", "o", "c", "a", "l", "e", "S", "t", "r", "i", "n", "g">>, <<"t", "o", "S", "t", "r", "i", "n", "g">>,
      <<"v", "a", "l", "u", "e", "O", "f">>, <<"_", "_", "p", "r", "o", "t", "o", "_", "_">>, <<"_", "_", "d", "e", "f", "i", "n", "e", "G", "e", "t", "t", "e", "r", "_", "_">>,
      <<"_", "_", "d", "e", "f", "i", "n", "e", "S", "e", "t", "t", "e", "r", "_", "_">>, <<"_", "_", "l", "o", "o", "k", "u", "p", "G", "e", "t", "t", "e", "r", "_", "_">>, <<"_", "_", "l", "o", "o", "k", "u", "p", "S", "e", "t", "t", "e", "r", "_", "_">> }

\* found[name] on the object literal found, whose own keys are in found.
FoundHas(found, name) == name \in found \/ name \in ObjectPrototypeKeys

\* The inner loop of GameSystem.readDirectory over the files of a provider:
\* [found, out].
RECURSIVE GameListFilesLoop(_, _, _, _)
GameListFilesLoop(files, k, found, out) ==
    IF k > Len(files) THEN [found |-> found, out |-> out]
    ELSE IF FoundHas(found, files[k][1])
    THEN GameListFilesLoop(files, k + 1, found, out)
    ELSE GameListFilesLoop(files, k + 1, found \cup {files[k][1]},
                           Append(out, files[k]))

\* The loop of GameSystem.readDirectory over the declaration order.
RECURSIVE GameReadDirectoryLoop(_, _, _, _, _, _, _, _, _, _, _)
GameReadDirectoryLoop(g, s, d, refs, k, path, qualifier, exists, found, out, io) ==
    IF k > Len(refs)
    THEN GameOutcome(g, s, IF exists THEN List(out) ELSE Undef, io)
    ELSE IF ~Admits(qualifier, g.heap[refs[k]].tags)
    THEN GameReadDirectoryLoop(g, s, d, refs, k + 1, path, qualifier, exists,
                               found, out, io)
    ELSE
    Let(ProviderReadDirectory(g.heap[refs[k]], d, path), LAMBDA o :
        IF o.result = Thrown
        THEN GameOutcome([g EXCEPT !.heap[refs[k]] = o.p], s, Thrown,
                         io \o o.io)
        ELSE IF o.result = Undef
        THEN GameReadDirectoryLoop([g EXCEPT !.heap[refs[k]] = o.p], s, d,
                                   refs, k + 1, path, qualifier, exists,
                                   found, out, io \o o.io)
        ELSE
        Let(GameListFilesLoop(o.result.items, 1, found, out), LAMBDA listed :
            GameReadDirectoryLoop([g EXCEPT !.heap[refs[k]] = o.p], s, d,
                                  refs, k + 1, path, qualifier, TRUE,
                                  listed.found, listed.out, io \o o.io)
        )
    )

GameReadDirectoryIn(v, d, path, qualifier) ==
    IF ~v.result.val THEN GameOutcome(v.g, v.s, Undef, v.io)
    ELSE GameReadDirectoryLoop(v.g, v.s, d, v.g.providers, 1, path,
                               qualifier, FALSE, {}, <<>>, v.io)

\* GameSystem.readDirectory(path, qualifier)
GameReadDirectory(g, s, d, path, qualifier) ==
    GameReadDirectoryIn(GameValidate(g, s, d), d, path, qualifier)

\* The loop of GameSystem.stat over the archive-prioritized view.
RECURSIVE GameStatLoop(_, _, _, _, _, _, _, _)
GameStatLoop(g, s, d, refs, k, path, qualifier, io) ==
    IF k > Len(refs) THEN GameOutcome(g, s, Undef, io)
    ELSE IF ~Admits(qualifier, g.heap[refs[k]].tags)
    THEN GameStatLoop(g, s, d, refs, k + 1, path, qualifier, io)
    ELSE
    Let(ProviderStat(g.heap[refs[k]], d, path), LAMBDA o :
        IF o.result = Undef
        THEN GameStatLoop([g EXCEPT !.heap[refs[k]] = o.p], s, d, refs,
                          k + 1, path, qualifier, io \o o.io)
        ELSE GameOutcome([g EXCEPT !.heap[refs[k]] = o.p], s, o.result,
                         io \o o.io)
    )

GameStatIn(v, d, path, qualifier) ==
    IF ~v.result.val THEN GameOutcome(v.g, v.s, Undef, v.io)
    ELSE GameStatLoop(v.g, v.s, d, v.g.providersSorted, 1, path, qualifier,
                      v.io)

\* GameSystem.stat(path, qualifier)
GameStat(g, s, d, path, qualifier) ==
    GameStatIn(GameValidate(g, s, d), d, path, qualifier)

\* --------------------------------------------- the game filesystem in use

\* The paths callers ask the game filesystem for.
GameFilePaths ==
    { <<"/", "a", "/", "c", "0", ".", "t">>, <<"/", "a", "/", "c", "1", ".", "t">>, <<"/", "a", "/", "o", ".", "t">>, <<"/", "x", ".", "t">> }

GameDirPaths == { <<"/", "a">>, <<"/", "x">> }

GameStatPaths == { <<"/", "a", "/", "c", "1", ".", "t">>, <<"/", "a">>, <<"/", "x", ".", "t">> }

GamePathPaths == { <<"/", "a", "/", "c", "1", ".", "t">>, <<"/", "a">> }

\* The qualifiers callers pass: none, the empty string, and two tags.
Qualifiers == { Undef, Text(<<>>), Text(<<"g", "a", "m", "e">>), Text(<<"m", "o", "d">>) }

\* The backend files that may disappear and come back.
GameDiskPaths ==
    { <<"/", "m", "/", "g", "a", "m", "e", "i", "n", "f", "o", ".", "t", "x", "t">>,
      <<"/", "m", "/", "p", "_", "0", "0", "1", ".", "v", "p", "k">> }

GameCall(op, arg, qualifier, preferVpk, pre, o) ==
    [op |-> op, arg |-> arg, qualifier |-> qualifier,
     preferVpk |-> preferVpk, pre |-> pre, result |-> o.result, io |-> o.io]

GameNoCall == GameCall("none", <<>>, Undef, FALSE, InitState_None,
                       GameOutcome(Undef, Undef, Undef, <<>>))

InitGame ==
    /\ \E img \in GameImageIds : disk = Disk(img, GameImageEntries, KvDocs)
    /\ vpk = NewVpkSystem(ArchivePath, TRUE)
    /\ steam = NewSteamCache(SteamRoot)
    /\ \E node \in BOOLEAN : game = NewGameSystem(ModRoot, node)
    /\ lastOp = GameNoCall
    /\ hist = [missed |-> FALSE, aborted |-> FALSE]
    /\ calls = <<>>
    /\ cachecache = <<>>

GameDone(op, arg, qualifier, preferVpk, o) ==
    /\ game' = o.g
    /\ steam' = o.s
    /\ lastOp' = GameCall(op, arg, qualifier, preferVpk, game.initialized, o)
    /\ UNCHANGED <<disk, vpk, hist, calls, cachecache>>

GameCallValidate ==
    \E o \in {GameValidate(game, steam, disk)} :
        GameDone("validate", <<>>, Undef, FALSE, o)

GameCallReadFile ==
    \E path \in GameFilePaths, qualifier \in Qualifiers, preferVpk \in BOOLEAN :
    \E o \in {GameReadFile(game, steam, disk, path, qualifier, preferVpk)} :
        GameDone("readFile", path, qualifier, preferVpk, o)

GameCallGetPath ==
    \E path \in GamePathPaths, qualifier \in Qualifiers, preferVpk \in BOOLEAN :
    \E o \in {GameGetPath(game, steam, disk, path, qualifier, preferVpk)} :
        GameDone("getPath", path, qualifier, preferVpk, o)

GameCallReadDirectory ==
    \E path \in GameDirPaths, qualifier \in Qualifiers :
    \E o \in {GameReadDirectory(game, steam, disk, path, qualifier)} :
        GameDone("readDirectory", path, qualifier, FALSE, o)

GameCallStat ==
    \E path \in GameStatPaths, qualifier \in Qualifiers :
    \E o \in {GameStat(game, steam, disk, path, qualifier)} :
        GameDone("stat", path, qualifier, FALSE, o)

\* The environment removes a file of the installation, or puts it back.
GameEnvRemove ==
    /\ \E p \in GameDiskPaths \ disk.gone :
           disk' = [disk EXCEPT !.gone = @ \cup {p}]
    /\ lastOp' = GameNoCall
    /\ UNCHANGED <<vpk, steam, game, hist, calls, cachecache>>

GameEnvRestore ==
    /\ \E p \in disk.gone : disk' = [disk EXCEPT !.gone = @ \ {p}]
    /\ lastOp' = GameNoCall
    /\ UNCHANGED <<vpk, steam, game, hist, calls, cachecache>>

NextGame ==
    \/ GameCallValidate
    \/ GameCallReadFile
    \/ GameCallGetPath
    \/ GameCallReadDirectory
    \/ GameCallStat
    \/ GameEnvRemove
    \/ GameEnvRestore

SpecGame == InitGame /\ [][NextGame]_vars

\* --------------------------------------- properties of the game filesystem

GameReady == game.initialized = InitState_Ready

\* The ordering a query walks.
Ordering(preferVpk) ==
    IF preferVpk THEN game.providersSorted ELSE game.providers

\* Whether the provider qualifies for the qualifier of a query: none was
\* given, or its tag set holds it.
HasTag(ref, qualifier) ==
    \/ qualifier = Undef
    \/ qualifier.val = <<>>
    \/ \E j \in 1..Len(game.heap[ref].tags) :
           game.heap[ref].tags[j] = qualifier.val

\* What the provider itself answers.
FileOf(ref, path) == ProviderReadFile(game.heap[ref], disk, path).result
StatOf(ref, path) == ProviderStat(game.heap[ref], disk, path).result
ListOf(ref, path) == ProviderReadDirectory(game.heap[ref], disk, path).result

Least(S) == CHOOSE k \in S : \A j \in S : k <= j

\* The positions of the ordering whose provider qualifies and has the file.
FileHits(refs, path, qualifier) ==
    {k \in 1..Len(refs) :
        HasTag(refs[k], qualifier) /\ FileOf(refs[k], path) # Undef}

\* C1: GameSystem.readFile answers with what the first provider of the
\* selected ordering that qualifies and has the file answers (its bytes or,
\* when that provider's read raises, its error); it answers NotFound exactly
\* when no qualifying provider has the file or the filesystem is not Ready.
C1_FirstProviderWins ==
    lastOp.op = "readFile" =>
        LET refs == Ordering(lastOp.preferVpk)
            hits == FileHits(refs, lastOp.arg, lastOp.qualifier)
        IN  IF ~GameReady \/ hits = {} THEN lastOp.result = Undef
            ELSE /\ lastOp.result = FileOf(refs[Least(hits)], lastOp.arg)
                 /\ lastOp.result # Undef

\* A read answered by a provider that comes after a qualifying provider
\* without the file and after a provider with the file that does not qualify.
C1_Witness ==
    /\ lastOp.op = "readFile"
    /\ GameReady
    /\ lastOp.result.kind = "bytes"
    /\ LET refs == Ordering(lastOp.preferVpk)
           hits == FileHits(refs, lastOp.arg, lastOp.qualifier)
       IN  /\ hits # {}
           /\ \E k \in 1..(Least(hits) - 1) :
                  /\ HasTag(refs[k], lastOp.qualifier)
                  /\ FileOf(refs[k], lastOp.arg) = Undef
           /\ \E k \in 1..(Least(hits) - 1) :
                  /\ ~HasTag(refs[k], lastOp.qualifier)
                  /\ FileOf(refs[k], lastOp.arg) # Undef

\* The positions of the declaration order whose provider qualifies and lists
\* the directory.
ListHits(path, qualifier) ==
    {k \in 1..Len(game.providers) :
        /\ HasTag(game.providers[k], qualifier)
        /\ ListOf(game.providers[k], path) # Undef}

EntriesOf(k, path) == Range(ListOf(game.providers[k], path).items)

\* C8: the list GameSystem.readDirectory returns holds exactly the names
\* reported by the qualifying providers, each name once, and the entry of a
\* name is the entry of the first provider in declaration order reporting it.
C8_DirectoryUnion ==
    (lastOp.op = "readDirectory" /\ GameReady /\ lastOp.result.kind = "list")
    =>
    LET out  == lastOp.result.items
        hits == ListHits(lastOp.arg, lastOp.qualifier)
    IN  /\ {out[j][1] : j \in 1..Len(out)}
             = UNION {{e[1] : e \in EntriesOf(k, lastOp.arg)} : k \in hits}
        /\ \A i, j \in 1..Len(out) : i # j => out[i][1] # out[j][1]
        /\ \A j \in 1..Len(out) :
               out[j] \in EntriesOf(
                   Least({k \in hits :
                            \E e \in EntriesOf(k, lastOp.arg) :
                                e[1] = out[j][1]}),
                   lastOp.arg)

\* The instance with only the providers that qualify for the qualifier.
Qualifying(qualifier) ==
    LET Keep(ref) == HasTag(ref, qualifier)
    IN  [game EXCEPT !.providers = SelectSeq(@, Keep),
                     !.providersSorted = SelectSeq(@, Keep)]

\* C9: every query (readFile, getPath, readDirectory, stat) with a qualifier
\* answers what the same query without qualifier answers over the providers
\* whose tag set holds the qualifier, and over all providers when no
\* qualifier is given: a provider without the tag never contributes.
C9_QualifierFilter ==
    (GameReady /\ lastOp.op \in {"readFile", "getPath", "readDirectory",
                                 "stat"})
    =>
    LET g == Qualifying(lastOp.qualifier)
    IN  lastOp.result =
            CASE lastOp.op = "readFile" ->
                     GameReadFile(g, steam, disk, lastOp.arg, Undef,
                                  lastOp.preferVpk).result
              [] lastOp.op = "getPath" ->
                     GameGetPath(g, steam, disk, lastOp.arg, Undef,
                                 lastOp.preferVpk).result
              [] lastOp.op = "readDirectory" ->
                     GameReadDirectory(g, steam, disk, lastOp.arg,
                                       Undef).result
              [] lastOp.op = "stat" ->
                     GameStat(g, steam, disk, lastOp.arg, Undef).result

\* A read with qualifier 'mod' of a file that a provider tagged only 'game'
\* has and would have served first: the answer comes from another provider.
C9_Witness ==
    /\ lastOp.op = "readFile"
    /\ GameReady
    /\ lastOp.qualifier = Text(<<"m", "o", "d">>)
    /\ lastOp.result.kind = "bytes"
    /\ LET refs == Ordering(lastOp.preferVpk)
           hits == FileHits(refs, lastOp.arg, Undef)
       IN  /\ hits # {}
           /\ game.heap[refs[Least(hits)]].tags = <<<<"g", "a", "m", "e">>>>
           /\ FileOf(refs[Least(hits)], lastOp.arg) # lastOp.result

IsVpk(ref) == game.heap[ref].kind = "vpk"
IsDir(ref) == game.heap[ref].kind = "dir"

\* The positions of the declaration order whose provider is an archive that
\* qualifies and has the path the last call asked for.
ArchiveHits ==
    {k \in 1..Len(game.providers) :
        /\ IsVpk(game.providers[k])
        /\ HasTag(game.providers[k], lastOp.qualifier)
        /\ IF lastOp.op = "stat"
           THEN StatOf(game.providers[k], lastOp.arg) # Undef
           ELSE FileOf(game.providers[k], lastOp.arg) # Undef}

\* C10: the archive-prioritized view is the archives of the validated list
\* in declaration order followed by its folders in declaration order; stat,
\* and readFile with preferVpk, answer what the first qualifying archive that
\* has the path answers, whenever there is one.
C10_ArchivePriority ==
    GameReady =>
        /\ game.providersSorted =
               SelectSeq(game.providers, IsVpk)
                   \o SelectSeq(game.providers, IsDir)
        /\ (lastOp.op = "stat"
            \/ (lastOp.op = "readFile" /\ lastOp.preferVpk))
           => (ArchiveHits # {}
               => lastOp.result =
                      IF lastOp.op = "stat"
                      THEN StatOf(game.providers[Least(ArchiveHits)],
                                  lastOp.arg)
                      ELSE FileOf(game.providers[Least(ArchiveHits)],
                                  lastOp.arg))

\* A read with preferVpk answered by an archive while a qualifying folder
\* declared before it has the file too, with other bytes.
C10_Witness ==
    /\ GameReady
    /\ lastOp.op = "readFile"
    /\ lastOp.preferVpk
    /\ lastOp.result.kind = "bytes"
    /\ ArchiveHits # {}
    /\ \E k \in 1..(Least(ArchiveHits) - 1) :
           /\ IsDir(game.providers[k])
           /\ HasTag(game.providers[k], lastOp.qualifier)
           /\ FileOf(game.providers[k], lastOp.arg) # Undef
           /\ FileOf(game.providers[k], lastOp.arg) # lastOp.result


\* What a call answers when the filesystem is not Ready: validate says
\* false, a query says NotFound.
NotReadyAnswer(op) == IF op = "validate" THEN Bool(FALSE) ELSE Undef

\* C11: when the first initialization of a GameSystem cannot read its
\* configuration it ends in Error, and every later validate, readFile,
\* getPath, readDirectory or stat finds it in Error, leaves it there,
\* answers false / NotFound and does not read the configuration file, also
\* when the file is readable again.
C11_FailedInitSticks ==
    /\ lastOp.op # "none" /\ lastOp.pre = InitState_None
           /\ ReadKV(disk, GameInfoFile(ModRoot)) = Undef =>
           /\ game.initialized = InitState_Error
           /\ lastOp.result = NotReadyAnswer(lastOp.op)
    /\ lastOp.op # "none" /\ lastOp.pre = InitState_Error =>
           /\ game.initialized = InitState_Error
           /\ lastOp.result = NotReadyAnswer(lastOp.op)
           /\ lastOp.io = <<>>

\* A read on a filesystem whose initialization failed, made when the
\* configuration is readable again and a fresh filesystem would answer it.
C11_Witness ==
    /\ lastOp.op = "readFile"
    /\ lastOp.pre = InitState_Error
    /\ lastOp.result = Undef
    /\ ReadKV(disk, GameInfoFile(ModRoot)) # Undef
    /\ GameReadFile(NewGameSystem(ModRoot, game.node),
                    NewSteamCache(SteamRoot), disk, lastOp.arg,
                    lastOp.qualifier, lastOp.preferVpk).result # Undef


\* The file or folder a provider serves.
ProviderPath(p) == IF p.kind = "vpk" THEN p.sys.path ELSE p.sys.root

\* The providers constructed so far, as <<kind, path>>, in construction
\* order.
Constructed ==
    [k \in 1..Len(game.heap) |->
        <<game.heap[k].kind, ProviderPath(game.heap[k])>>]

\* The mounts the configuration declares, and those among them that are not
\* disabled and whose application has no install directory.
DeclaredMounts ==
    KvDir(KvDir(GameInfoDoc, <<"G", "a", "m", "e", "I", "n", "f", "o">>),
          <<"m", "o", "u", "n", "t">>).children

UnresolvedMounts ==
    {k \in 1..Len(DeclaredMounts) :
        /\ ~DeclaredMounts[k].pair
        /\ \/ KvPairOrNull(DeclaredMounts[k], <<"e", "n", "a", "b", "l", "e", "d">>) = Undef
           \/ KvBool(KvPairOrNull(DeclaredMounts[k], <<"e", "n", "a", "b", "l", "e", "d">>))
        /\ SteamFindGame(steam, disk, DeclaredMounts[k].key).result = Undef}

\* What the other mount of the installation (application 2, folder h2: an
\* archive q and the folders k and k2) and the search paths contribute. A
\* search path that matches nothing on a NodeSystem contributes nothing; on
\* another backend it contributes the folder it names.
OtherMountProviders ==
    << <<"vpk", <<"/", "l", "/", "s", "t", "e", "a", "m", "a", "p", "p", "s", "/", "c", "o", "m", "m", "o", "n", "/", "h", "/", "h", "2", "/", "q", ".", "v", "p", "k">>>>,
       <<"dir", <<"/", "l", "/", "s", "t", "e", "a", "m", "a", "p", "p", "s", "/", "c", "o", "m", "m", "o", "n", "/", "h", "/", "h", "2", "/", "k">>>>,
       <<"dir", <<"/", "l", "/", "s", "t", "e", "a", "m", "a", "p", "p", "s", "/", "c", "o", "m", "m", "o", "n", "/", "h", "/", "h", "2", "/", "k", "2">>>> >>

SearchPathProviders(node) ==
    << <<"dir", <<"/", "m", "/", "d">>>>,
       <<"vpk", <<"/", "m", "/", "p", "_", "d", "i", "r", ".", "v", "p", "k">>>>,
       <<"dir", <<"/", "e">>>> >> \o
    IF node THEN <<>>
    ELSE << <<"dir", <<"/", "l", "/", "s", "t", "e", "a", "m", "a", "p", "p", "s", "/", "c", "o", "m", "m", "o", "n", "/", "g", "/", "r">>>>,
            <<"dir", <<"/", "m", "/", "n", "o", "w", "h", "e", "r", "e">>>> >>

\* C12: when the configuration is readable and a declared mount names an
\* application whose install directory cannot be resolved, the first
\* initialization still ends Ready, and the providers constructed are
\* exactly those of the other mount followed by those of the search paths:
\* the unresolvable mount contributes none.
C12_UnresolvedMountSkipped ==
    /\ lastOp.op # "none"
    /\ lastOp.pre = InitState_None
    /\ ReadKV(disk, GameInfoFile(ModRoot)) # Undef
    /\ UnresolvedMounts # {}
    => /\ GameReady
       /\ Constructed = OtherMountProviders \o SearchPathProviders(game.node)

\* An initialization that met the unresolvable mount (it asked for the
\* manifest of application 3, which the library lists and the backend
\* lacks) and ended Ready.
C12_Witness ==
    /\ lastOp.op # "none"
    /\ lastOp.pre = InitState_None
    /\ UnresolvedMounts # {}
    /\ ManifestFile(LibraryPath, <<"3">>) \in Range(lastOp.io)
    /\ GameReady
    /\ Len(game.providers) > 0


\* Whether a constructed provider answers validate() with true: an archive
\* whose directory file parsed, a folder whose root the backend knows.
Validates(ref) == ProviderValidate(game.heap[ref], disk).result.val

\* C19: on a Ready GameSystem the provider list holds exactly the
\* constructed providers that validate, in the order of their construction;
\* and an initialization with a readable configuration ends Ready whether or
\* not some provider failed validation.
C19_WorkingProviders ==
    /\ GameReady =>
           /\ Range(game.providers) =
                  {ref \in 1..Len(game.heap) : Validates(ref)}
           /\ \A i \in 1..Len(game.providers), j \in 1..Len(game.providers) :
                  i < j => game.providers[i] < game.providers[j]
    /\ lastOp.op # "none" /\ lastOp.pre = InitState_None
           /\ ReadKV(disk, GameInfoFile(ModRoot)) # Undef => GameReady

\* A Ready GameSystem that has dropped a constructed provider (a mounted
\* folder the backend does not have) and kept the providers around it.
C19_Witness ==
    /\ GameReady
    /\ \E ref \in 1..Len(game.heap) :
           /\ ~Validates(ref)
           /\ ref \notin Range(game.providers)
           /\ \E i \in 1..Len(game.providers) : game.providers[i] < ref
           /\ \E i \in 1..Len(game.providers) : game.providers[i] > ref

\* ------------------------------ concurrent queries on the game filesystem

\* The callers that may have a query in flight at the same time.
MaxCallers == 2

Callers == 1..MaxCallers

\* The queries the concurrent callers make.
AsyncQueries ==
    {[op |-> "validate", arg |-> <<>>, qualifier |-> Undef,
      preferVpk |-> FALSE]} \cup
    {[op |-> op, arg |-> <<"/", "a", "/", "c", "1", ".", "t">>,
      qualifier |-> qualifier, preferVpk |-> preferVpk] :
        op \in {"readFile", "getPath"},
        qualifier \in {Undef, Text(<<"m", "o", "d">>)},
        preferVpk \in BOOLEAN} \cup
    {[op |-> op, arg |-> <<"/", "a">>, qualifier |-> qualifier,
      preferVpk |-> FALSE] :
        op \in {"readDirectory", "stat"},
        qualifier \in {Undef, Text(<<"m", "o", "d">>)}}

\* A caller: idle, suspended in the parse its query started ("parsing"), or
\* answered ("done").
Idle == [pc |-> "idle", q |-> Undef, result |-> Undef]

\* The part of a query that follows `await this.validate()'; v is what
\* validate left and answered.
GameQueryIn(v, d, q) ==
    IF q.op = "validate" THEN v
    ELSE IF q.op = "readFile"
    THEN GameReadFileIn(v, d, q.arg, q.qualifier, q.preferVpk)
    ELSE IF q.op = "getPath"
    THEN GameGetPathIn(v, d, q.arg, q.qualifier, q.preferVpk)
    ELSE IF q.op = "readDirectory"
    THEN GameReadDirectoryIn(v, d, q.arg, q.qualifier)
    ELSE GameStatIn(v, d, q.arg, q.qualifier)

InitGameAsync ==
    /\ disk = Disk("game", GameImageEntries, KvDocs)
    /\ vpk = NewVpkSystem(ArchivePath, TRUE)
    /\ steam = NewSteamCache(SteamRoot)
    /\ \E node \in BOOLEAN : game = NewGameSystem(ModRoot, node)
    /\ lastOp = GameNoCall
    /\ hist = [missed |-> FALSE, aborted |-> FALSE]
    /\ calls = [c \in Callers |-> Idle]
    /\ cachecache = <<>>

GameAnswered(c, q, o) ==
    /\ game' = o.g
    /\ steam' = o.s
    /\ calls' = [calls EXCEPT ![c] = [pc |-> "done", q |-> q,
                                      result |-> o.result]]
    /\ UNCHANGED <<disk, vpk, lastOp, hist, cachecache>>

\* A caller issues a query. The query runs up to its first suspension: on an
\* instance never parsed, validate enters parse, which marks the instance
\* Error and suspends reading gameinfo.txt; on any other instance validate
\* answers from the state it finds and the query runs to its end (nothing
\* another caller does changes a Ready or Error instance's providers).
GameBegin(c) ==
    /\ calls[c].pc = "idle"
    /\ \E q \in AsyncQueries :
          IF game.initialized = InitState_None
          THEN /\ game' = [game EXCEPT !.initialized = InitState_Error]
               /\ calls' = [calls EXCEPT ![c] = [pc |-> "parsing", q |-> q,
                                                 result |-> Undef]]
               /\ UNCHANGED <<disk, vpk, steam, lastOp, hist, cachecache>>
          ELSE \E o \in {GameQueryIn(
                            GameValidated(GameOutcome(game, steam, Undef, <<>>)),
                            disk, q)} :
                   GameAnswered(c, q, o)

\* The parse a caller is suspended in runs to its end, and the caller's
\* query with it. Callers that arrive meanwhile find the instance in Error
\* and return without touching it, so the rest of the parse is one step.
GameResume(c) ==
    /\ calls[c].pc = "parsing"
    /\ \E o \in {GameQueryIn(GameValidated(GameParse(game, steam, disk)),
                             disk, calls[c].q)} :
           GameAnswered(c, calls[c].q, o)

\* The caller takes its answer.
GameReturn(c) ==
    /\ calls[c].pc = "done"
    /\ calls' = [calls EXCEPT ![c] = Idle]
    /\ UNCHANGED <<disk, vpk, steam, game, lastOp, hist, cachecache>>

NextGameAsync ==
    \E c \in Callers :
        \/ GameBegin(c)
        \/ GameResume(c)
        \/ GameReturn(c)

SpecGameAsync == InitGameAsync /\ [][NextGameAsync]_vars

\* C13: with a readable configuration, every answered query was answered
\* after the initialization completed (the instance is Ready) and with what
\* the complete provider list answers.
C13_AnsweredAfterInit ==
    \A c \in Callers :
        calls[c].pc = "done" =>
            /\ game.initialized = InitState_Ready
            /\ calls[c].result =
                   GameQueryIn(
                       GameValidated(GameOutcome(game, steam, Undef, <<>>)),
                       disk, calls[c].q).result


\* ------------------------------------------------- the SteamCache registry

\* SteamCache instances constructed at most.
MaxInstances == 4

\* Two storage backends (object identities) and two metadata roots.
Backends == {"fsA", "fsB"}

Roots == {SteamRoot, <<"/", "t">>}

\* SteamCache.get(fs, root) on the static cachecache cc, the instances living
\* in heap: the instance registered under root when its backend is fs, else a
\* new instance, registered under root in place of whatever was there.
SteamCacheGet(cc, heap, fs, root) ==
    IF root \in DOMAIN cc /\ heap[cc[root]].fs = fs
    THEN [cc |-> cc, heap |-> heap, result |-> cc[root]]
    ELSE [cc     |-> (root :> (Len(heap) + 1)) @@ cc,
          heap   |-> Append(heap, [fs |-> fs, cache |-> NewSteamCache(root)]),
          result |-> Len(heap) + 1]

\* steam holds the instances constructed so far, hist the instance each
\* (backend, root) pair was given by its first call (0: no call yet).
InitCache ==
    /\ disk = Undef
    /\ vpk = Undef
    /\ game = Undef
    /\ steam = <<>>
    /\ cachecache = <<>>
    /\ calls = <<>>
    /\ lastOp = [op |-> "none", fs |-> Undef, root |-> Undef, result |-> 0]
    /\ hist = [pair \in Backends \X Roots |-> 0]

CacheGet ==
    \E fs \in Backends, root \in Roots :
    \E o \in {SteamCacheGet(cachecache, steam, fs, root)} :
        /\ Len(o.heap) <= MaxInstances
        /\ cachecache' = o.cc
        /\ steam' = o.heap
        /\ lastOp' = [op |-> "get", fs |-> fs, root |-> root,
                      result |-> o.result]
        /\ hist' = IF hist[<<fs, root>>] = 0
                   THEN [hist EXCEPT ![<<fs, root>>] = o.result]
                   ELSE hist
        /\ UNCHANGED <<disk, vpk, game, calls>>

NextCache == CacheGet

SpecCache == InitCache /\ [][NextCache]_vars

\* C14: a call of SteamCache.get returns the instance the first call with
\* the same (backend, root) pair returned, whatever calls came in between.
C14_SameInstancePerPair ==
    lastOp.op = "get" => lastOp.result = hist[<<lastOp.fs, lastOp.root>>]


\* ----------------------------------------------------- the SteamCache in use

\* A Steam library of three applications: application 1 has a manifest,
\* application 2 has a manifest without installdir, application 3 has none.
BrokenManifestDoc ==
    KVSet(<<>>, << KVSet(<<"A", "p", "p", "S", "t", "a", "t", "e">>, << KV(<<"n", "a", "m", "e">>, <<"h">>) >>) >>)

SteamImageEntries ==
    << <<LibraryFoldersFile(SteamRoot), <<34>>>>,
       <<ManifestFile(LibraryPath, <<"1">>), <<34>>>>,
       <<ManifestFile(LibraryPath, <<"2">>), <<34>>>> >>

SteamKvDocs ==
    [p \in {SteamImageEntries[k][1] : k \in 1..Len(SteamImageEntries)} |->
        IF p = LibraryFoldersFile(SteamRoot) THEN LibraryFoldersDoc
        ELSE IF p = ManifestFile(LibraryPath, <<"1">>) THEN ManifestDoc(<<"g">>)
        ELSE BrokenManifestDoc]

\* The applications callers ask for, the calls they make, and the backend
\* files that may disappear and come back.
AppIds == {<<"1">>, <<"2">>, <<"3">>}

SteamQueries ==
    {[op |-> op, appid |-> <<>>, force |-> FALSE] :
        op \in {"parse", "getInstalled"}} \cup
    {[op |-> "findGame", appid |-> appid, force |-> FALSE] :
        appid \in AppIds} \cup
    {[op |-> "parseGame", appid |-> appid, force |-> force] :
        appid \in AppIds, force \in BOOLEAN}

SteamDiskPaths ==
    {LibraryFoldersFile(SteamRoot), ManifestFile(LibraryPath, <<"1">>)}

\* Object.keys(this.applibcache)
Keys(cache) == [kind |-> "keys", items |-> DOMAIN cache]

\* A caller of the SteamCache with no call in flight.
SteamIdle ==
    [pc |-> "idle", q |-> Undef, result |-> Undef, pre |-> Undef, io |-> <<>>]

\* Where a call stands after a step: the instance, the position of the call
\* ("lib": suspended in parse reading the library folders, "manifest":
\* suspended in parseGame reading a manifest, "done"), its answer when done
\* and the backend paths the step read.
SteamStep(s, pc, result, io) ==
    [s |-> s, pc |-> pc, result |-> result, io |-> io]

\* findGame after its parse: parseGame when the application has no entry in
\* appdircache, then the entry.
SteamFindGameNext(s, appid, io) ==
    IF appid \in DOMAIN s.appdircache
    THEN SteamStep(s, "done", s.appdircache[appid], io)
    ELSE IF SteamParseGameSkips(s, appid, FALSE)
    THEN SteamStep(s, "done", Undef, io)
    ELSE SteamStep(s, "manifest", Undef, io)

\* A call after `if (!this.initialized) await this.parse()'; parsed is what
\* parse answered.
SteamAfterParse(s, q, parsed, io) ==
    IF q.op = "parse" THEN SteamStep(s, "done", parsed, io)
    ELSE IF q.op = "getInstalled"
    THEN SteamStep(s, "done", Keys(s.applibcache), io)
    ELSE SteamFindGameNext(s, q.appid, io)

\* A call up to its first suspension. parse marks an instance never parsed
\* Error before it suspends.
SteamBeginStep(s, q) ==
    IF q.op = "parseGame"
    THEN IF SteamParseGameSkips(s, q.appid, q.force)
         THEN SteamStep(s, "done", Undef, <<>>)
         ELSE SteamStep(s, "manifest", Undef, <<>>)
    ELSE IF s.initialized = InitState_None
    THEN SteamStep([s EXCEPT !.initialized = InitState_Error], "lib", Undef,
                   <<>>)
    ELSE SteamAfterParse(s, q, Bool(s.initialized = InitState_Ready), <<>>)

\* The suspended parse runs to its end; what it raises goes through
\* findGame and getInstalled to the caller.
SteamLibStep(s, d, q) ==
    Let(SteamParseRead(s, d), LAMBDA o :
        IF o.result = Thrown THEN SteamStep(o.s, "done", Thrown, o.io)
        ELSE SteamAfterParse(o.s, q, o.result, o.io)
    )

\* The suspended parseGame runs to its end.
SteamManifestStep(s, d, q) ==
    Let(SteamParseGameRead(s, d, q.appid), LAMBDA o :
        SteamStep(o.s, "done",
                  IF q.op = "parseGame" THEN o.result
                  ELSE IF q.appid \in DOMAIN o.s.appdircache
                  THEN o.s.appdircache[q.appid]
                  ELSE Undef,
                  o.io)
    )

\* The history: how often the library folders file was read (up to 2), and
\* the applications whose manifest could not be read or lacked the install
\* directory at the last load, no forced load having been asked since.
SteamRecord(h, q, step, loaded) ==
    [libReads |-> Min2(2, h.libReads
                          + Cardinality({k \in 1..Len(step.io) :
                                step.io[k] = LibraryFoldersFile(SteamRoot)})),
     failed   |-> IF loaded /\ q.appid \in DOMAIN step.s.appdircache
                            /\ step.s.appdircache[q.appid] # Undef
                  THEN h.failed \ {q.appid}
                  ELSE IF loaded THEN h.failed \cup {q.appid}
                  ELSE IF q.op = "parseGame" /\ q.force
                  THEN h.failed \ {q.appid}
                  ELSE h.failed]

InitSteam ==
    /\ disk = Disk("steam", SteamImageEntries, SteamKvDocs)
    /\ vpk = Undef
    /\ game = Undef
    /\ steam = NewSteamCache(SteamRoot)
    /\ lastOp = NoCall
    /\ hist = [libReads |-> 0, failed |-> {}]
    /\ calls = [c \in Callers |-> SteamIdle]
    /\ cachecache = <<>>

\* The step of caller c is taken. pre keeps what the call found when it was
\* issued: the instance and the applications with a failed load; a forced
\* load issued meanwhile takes its application out of the latter.
SteamStepped(c, q, pre, step, loaded) ==
    /\ steam' = step.s
    /\ hist' = SteamRecord(hist, q, step, loaded)
    /\ calls' = [k \in Callers |->
                    IF k = c
                    THEN [pc |-> step.pc, q |-> q, result |-> step.result,
                          pre |-> pre, io |-> calls[c].io \o step.io]
                    ELSE IF calls[k].pc = "idle" THEN calls[k]
                    ELSE [calls[k] EXCEPT !.pre.failed =
                             @ \cap SteamRecord(hist, q, step, loaded).failed]]
    /\ UNCHANGED <<disk, vpk, game, lastOp, cachecache>>

SteamBegin(c) ==
    /\ calls[c].pc = "idle"
    /\ \E q \in SteamQueries :
       \E step \in {SteamBeginStep(steam, q)} :
           SteamStepped(c, q, [s |-> steam, failed |-> hist.failed], step,
                        FALSE)

SteamResumeLib(c) ==
    /\ calls[c].pc = "lib"
    /\ \E step \in {SteamLibStep(steam, disk, calls[c].q)} :
           SteamStepped(c, calls[c].q, calls[c].pre, step, FALSE)

SteamResumeManifest(c) ==
    /\ calls[c].pc = "manifest"
    /\ \E step \in {SteamManifestStep(steam, disk, calls[c].q)} :
           SteamStepped(c, calls[c].q, calls[c].pre, step, TRUE)

SteamReturn(c) ==
    /\ calls[c].pc = "done"
    /\ calls' = [calls EXCEPT ![c] = SteamIdle]
    /\ UNCHANGED <<disk, vpk, steam, game, lastOp, hist, cachecache>>

SteamEnvRemove ==
    /\ \E p \in SteamDiskPaths \ disk.gone :
           disk' = [disk EXCEPT !.gone = @ \cup {p}]
    /\ UNCHANGED <<vpk, steam, game, lastOp, hist, calls, cachecache>>

SteamEnvRestore ==
    /\ \E p \in disk.gone : disk' = [disk EXCEPT !.gone = @ \ {p}]
    /\ UNCHANGED <<vpk, steam, game, lastOp, hist, calls, cachecache>>

NextSteam ==
    \/ \E c \in Callers : SteamBegin(c)
    \/ \E c \in Callers : SteamResumeLib(c)
    \/ \E c \in Callers : SteamResumeManifest(c)
    \/ \E c \in Callers : SteamReturn(c)
    \/ SteamEnvRemove
    \/ SteamEnvRestore

SpecSteam == InitSteam /\ [][NextSteam]_vars


\* ------------------------------------------------ properties of SteamCache

\* C15: an unforced parseGame for an application that has an entry in
\* appdircache answers with that entry (the cached directory, or NotFound
\* for a cached negative) and reads no file.
C15_ReturnsCached ==
    \A c \in Callers :
        /\ calls[c].pc = "done"
        /\ calls[c].q.op = "parseGame"
        /\ ~calls[c].q.force
        /\ calls[c].q.appid \in DOMAIN calls[c].pre.s.appdircache
        => /\ calls[c].result = calls[c].pre.s.appdircache[calls[c].q.appid]
           /\ calls[c].io = <<>>

\* C16: an unforced findGame or parseGame for an application whose manifest
\* could not be read, or lacked the install directory, at its last load
\* answers NotFound and reads no file; and no findGame or parseGame raises.
C16_NegativeCached ==
    \A c \in Callers :
        calls[c].pc = "done" /\ calls[c].q.op \in {"findGame", "parseGame"} =>
            /\ calls[c].result # Thrown
            /\ ~calls[c].q.force /\ calls[c].q.appid \in calls[c].pre.failed =>
                   /\ calls[c].result = Undef
                   /\ calls[c].io = <<>>

\* C23: a findGame answered while another caller's parse of the same
\* SteamCache is still suspended in its read carries the directory a
\* completed parse gives for that application on the same backend.
C23_FindGameDuringParse ==
    \A c \in Callers, k \in Callers :
        /\ calls[c].pc = "done"
        /\ calls[c].q.op = "findGame"
        /\ calls[k].pc = "lib"
        /\ disk.gone = {}
        => calls[c].result =
               SteamFindGame(NewSteamCache(SteamRoot), disk,
                             calls[c].q.appid).result

\* C17: the library folders file is read at most once, and an instance that
\* is Ready or Error stays as it is.
C17_StickyOnce ==
    [][/\ hist'.libReads <= 1
       /\ steam.initialized \in {InitState_Ready, InitState_Error} =>
              steam'.initialized = steam.initialized]_vars


\* ------------------------------------------ properties of the chunk cache

\* C18: with caching enabled, a step that is not cleanCache keeps every
\* cache entry as it is, a readFile does not read the file of a chunk that
\* is in the cache, and an entry that appears holds the bytes of a chunk file
\* the backend could read (a failed load adds none).
C18_CacheAppendOnly ==
    [][vpk.cacheOn /\ lastOp'.op # "cleanCache" =>
          /\ \A idx \in DOMAIN vpk.cache :
                 /\ idx \in DOMAIN vpk'.cache
                 /\ vpk'.cache[idx] = vpk.cache[idx]
                 /\ lastOp'.op = "readFile" =>
                        VpkGetArchivePath(vpk, idx) \notin Range(lastOp'.io)
          /\ \A idx \in DOMAIN vpk'.cache \ DOMAIN vpk.cache :
                 /\ FsHas(disk, VpkGetArchivePath(vpk, idx))
                 /\ vpk'.cache[idx] = FsContent(disk, VpkGetArchivePath(vpk, idx))
      ]_vars

\* A read of a record stored in a numbered chunk, answered from the cache
\* without any backend read while the chunk file is gone from the backend.
C18_Witness ==
    /\ lastOp.op = "readFile"
    /\ vpk.cacheOn
    /\ lastOp.result.kind = "bytes"
    /\ lastOp.io = <<>>
    /\ HasFile(vpk.files, lastOp.arg)
    /\ LET info == FileInfoOf(vpk.files, lastOp.arg)
       IN  /\ info.length > 0
           /\ info.archiveIndex # INDEX_INLINE
           /\ info.archiveIndex \in DOMAIN vpk.cache
           /\ ~FsHas(disk, VpkGetArchivePath(vpk, info.archiveIndex))


\* ----------------------------- the archive reader over a backend that raises

\* The archive reader over a backend whose readFile comes to raise, and
\* stops raising, at the directory file and at the chunk files.
InitIo ==
    /\ \E img \in {"v1", "v2"} : disk = Disk(img, VpkImageEntries(img), <<>>)
    /\ \E enableCache \in BOOLEAN : vpk = NewVpkSystem(ArchivePath, enableCache)
    /\ steam = Undef
    /\ game = Undef
    /\ lastOp = NoCall
    /\ hist = [missed |-> FALSE, aborted |-> FALSE]
    /\ calls = <<>>
    /\ cachecache = <<>>

IoRaise ==
    /\ \E p \in VpkDiskPaths \ disk.raising :
           disk' = [disk EXCEPT !.raising = @ \cup {p}]
    /\ lastOp' = NoCall
    /\ UNCHANGED <<vpk, steam, game, hist, calls, cachecache>>

IoCalm ==
    /\ \E p \in disk.raising : disk' = [disk EXCEPT !.raising = @ \ {p}]
    /\ lastOp' = NoCall
    /\ UNCHANGED <<vpk, steam, game, hist, calls, cachecache>>

NextIo ==
    \/ CallValidate
    \/ CallReadFile
    \/ CallStat
    \/ CallCleanCache
    \/ IoRaise
    \/ IoCalm

SpecIo == InitIo /\ [][NextIo]_vars

\* C20: a VpkSystem.readFile during which the backend raised at the
\* directory file or at a chunk file answers NotFound.
C20_RaiseBecomesNotFound ==
    /\ lastOp.op = "readFile"
    /\ \E p \in Range(lastOp.io) : p \in disk.raising
    => lastOp.result = Undef

\* ------------------------------------------- search paths and install root

\* A second installation: no mounts; the search paths name an archive that
\* exists only as the single file /m/z.vpk, the folder /m/d, the folder /e
\* beside the mod, and the folder r of the application's install directory.
SearchGameInfoDoc ==
    KVSet(<<>>, <<
      KVSet(<<"G", "a", "m", "e", "I", "n", "f", "o">>, <<
        KV(<<"g", "a", "m", "e">>, <<"n">>),
        KVSet(<<"F", "i", "l", "e", "S", "y", "s", "t", "e", "m">>, <<
          KV(<<"S", "t", "e", "a", "m", "A", "p", "p", "I", "d">>, <<"1">>),
          KVSet(<<"S", "e", "a", "r", "c", "h", "P", "a", "t", "h", "s">>, <<
            KV(<<"G", "a", "m", "e">>, <<"|", "g", "a", "m", "e", "i", "n", "f", "o", "_", "p", "a", "t", "h", "|", "z", ".", "v", "p", "k">>),
            KV(<<"G", "a", "m", "e", "+", "M", "o", "d">>, <<"|", "g", "a", "m", "e", "i", "n", "f", "o", "_", "p", "a", "t", "h", "|", "d">>),
            KV(<<"M", "o", "d">>, <<"|", "a", "l", "l", "_", "s", "o", "u", "r", "c", "e", "_", "e", "n", "g", "i", "n", "e", "_", "p", "a", "t", "h", "s", "|", "e">>),
            KV(<<"G", "a", "m", "e">>, <<"r">>) >>) >>) >>) >>)

SearchKvDocs ==
    [p \in DOMAIN KvDocs |->
        IF p = <<"/", "m", "/", "g", "a", "m", "e", "i", "n", "f", "o", ".", "t", "x", "t">> THEN SearchGameInfoDoc ELSE KvDocs[p]]

SearchImageEntries ==
    << <<<<"/", "s", "/", "s", "t", "e", "a", "m", "a", "p", "p", "s", "/", "l", "i", "b", "r", "a", "r", "y", "f", "o", "l", "d", "e", "r", "s", ".", "v", "d", "f">>, <<34>> >>,
       <<<<"/", "l", "/", "s", "t", "e", "a", "m", "a", "p", "p", "s", "/", "a", "p", "p", "m", "a", "n", "i", "f", "e", "s", "t", "_", "1", ".", "a", "c", "f">>, <<34>> >>,
       <<<<"/", "m", "/", "g", "a", "m", "e", "i", "n", "f", "o", ".", "t", "x", "t">>, <<34>> >>,
       <<<<"/", "m", "/", "z", ".", "v", "p", "k">>, SmallArchiveBytes>>,
       <<<<"/", "m", "/", "d", "/", "a", "/", "c", "0", ".", "t">>, <<70, 71>> >>,
       <<<<"/", "e", "/", "a", "/", "c", "1", ".", "t">>, <<74>> >>,
       <<<<"/", "l", "/", "s", "t", "e", "a", "m", "a", "p", "p", "s", "/", "c", "o", "m", "m", "o", "n", "/", "g", "/", "r", "/", "a", "/", "c", "1", ".", "t">>, <<77>> >> >>

\* The backend files that may disappear and come back: the configuration
\* and the manifest that gives the application its install directory.
SearchDiskPaths ==
    { <<"/", "m", "/", "g", "a", "m", "e", "i", "n", "f", "o", ".", "t", "x", "t">>, <<"/", "l", "/", "s", "t", "e", "a", "m", "a", "p", "p", "s", "/", "a", "p", "p", "m", "a", "n", "i", "f", "e", "s", "t", "_", "1", ".", "a", "c", "f">> }

InitSearch ==
    /\ disk = Disk("search", SearchImageEntries, SearchKvDocs)
    /\ vpk = NewVpkSystem(ArchivePath, TRUE)
    /\ steam = NewSteamCache(SteamRoot)
    /\ \E node \in BOOLEAN : game = NewGameSystem(ModRoot, node)
    /\ lastOp = GameNoCall
    /\ hist = [missed |-> FALSE, aborted |-> FALSE]
    /\ calls = <<>>
    /\ cachecache = <<>>

SearchEnvRemove ==
    /\ \E p \in SearchDiskPaths \ disk.gone :
           disk' = [disk EXCEPT !.gone = @ \cup {p}]
    /\ lastOp' = GameNoCall
    /\ UNCHANGED <<vpk, steam, game, hist, calls, cachecache>>

SearchEnvRestore ==
    /\ \E p \in disk.gone : disk' = [disk EXCEPT !.gone = @ \ {p}]
    /\ lastOp' = GameNoCall
    /\ UNCHANGED <<vpk, steam, game, hist, calls, cachecache>>

NextSearch ==
    \/ GameCallValidate
    \/ GameCallReadFile
    \/ GameCallGetPath
    \/ GameCallReadDirectory
    \/ GameCallStat
    \/ SearchEnvRemove
    \/ SearchEnvRestore

SpecSearch == InitSearch /\ [][NextSearch]_vars

\* The first initialization, made with a readable configuration.
FirstInit ==
    /\ lastOp.op # "none"
    /\ lastOp.pre = InitState_None
    /\ ReadKV(disk, GameInfoFile(ModRoot)) # Undef

\* C21: when a search path names x.vpk and the backend has the single-file
\* archive x.vpk and no x_dir.vpk, the initialized filesystem has an archive
\* provider over x.vpk among its validated providers.
C21_SingleFileArchiveProbed ==
    /\ FirstInit
    /\ FsHas(disk, <<"/", "m", "/", "z", ".", "v", "p", "k">>)
    /\ ~FsHas(disk, <<"/", "m", "/", "z", "_", "d", "i", "r", ".", "v", "p", "k">>)
    => \E k \in 1..Len(game.providers) :
           /\ game.heap[game.providers[k]].kind = "vpk"
           /\ game.heap[game.providers[k]].sys.path = <<"/", "m", "/", "z", ".", "v", "p", "k">>

\* What the declarations that start with a token contribute: the archive
\* name on a backend that is not globbed (a NodeSystem globs, and finds no
\* z_dir.vpk), then the folders /m/d and /e.
TokenProviders(node) ==
    (IF node THEN <<>> ELSE << <<"vpk", <<"/", "m", "/", "z", "_", "d", "i", "r", ".", "v", "p", "k">>>> >>) \o
    << <<"dir", <<"/", "m", "/", "d">>>>, <<"dir", <<"/", "e">>>> >>

\* C29: when the application's install directory cannot be resolved, the
\* first initialization with a readable configuration ends Ready, and the
\* providers constructed are exactly those of the declarations that start
\* with the mod-directory or parent-directory token: the install-relative
\* declaration contributes none.
C29_UnresolvedInstallDropped ==
    FirstInit /\ game.gameroot = Undef
    => /\ GameReady
       /\ Constructed = TokenProviders(game.node)

\* An initialization that asked for the application's manifest, found no
\* install directory, and ended Ready with the token declarations' folders.
C29_Witness ==
    /\ FirstInit
    /\ disk.img = "search"
    /\ game.gameroot = Undef
    /\ ManifestFile(LibraryPath, <<"1">>) \in Range(lastOp.io)
    /\ GameReady
    /\ Len(game.providers) >= 2

\* --------------------------------- concurrent queries on the archive reader

\* The queries the concurrent callers make: for files and directories the
\* archive holds.
VpkAsyncQueries ==
    {[op |-> "readFile", arg |-> path] :
        path \in {<<"/", "a", "/", "c", "0", ".", "t">>, <<"/", "a", "/", "z", ".", "t">>, <<"/", "i", ".", "t">>}} \cup
    {[op |-> "stat", arg |-> path] : path \in {<<"/", "a", "/", "c", "0", ".", "t">>, <<"/", "a">>}} \cup
    {[op |-> "readDirectory", arg |-> path] : path \in {<<>>, <<"/", "a">>}}

\* A query from its start to its end on instance v.
VpkQueryOn(v, d, q) ==
    IF q.op = "readFile" THEN VpkReadFile(v, d, q.arg)
    ELSE IF q.op = "readDirectory" THEN VpkReadDirectory(v, d, q.arg)
    ELSE VpkStat(v, d, q.arg)

InitVpkAsync ==
    /\ \E img \in {"v1", "v2"} : disk = Disk(img, VpkImageEntries(img), <<>>)
    /\ \E enableCache \in BOOLEAN : vpk = NewVpkSystem(ArchivePath, enableCache)
    /\ steam = Undef
    /\ game = Undef
    /\ lastOp = NoCall
    /\ hist = [missed |-> FALSE, aborted |-> FALSE]
    /\ calls = [c \in Callers |-> Idle]
    /\ cachecache = <<>>

VpkAnswered(c, q, v, result) ==
    /\ vpk' = v
    /\ calls' = [calls EXCEPT ![c] = [pc |-> "done", q |-> q,
                                      result |-> result]]
    /\ UNCHANGED <<disk, steam, game, lastOp, hist, cachecache>>

\* stat after `await this.getFileInfo(path)': a record answers at once; with
\* no record the caller looks into this.dirs when it runs again.
VpkStatStep(c, q, gi) ==
    IF gi.result # Undef
    THEN VpkAnswered(c, q, gi.v,
                     Stat(FileType_File, gi.result.length, 0))
    ELSE /\ vpk' = gi.v
         /\ calls' = [calls EXCEPT ![c] = [pc |-> "dirs", q |-> q,
                                           result |-> Undef]]
         /\ UNCHANGED <<disk, steam, game, lastOp, hist, cachecache>>

\* A query on an instance whose parse has been entered: validate answers
\* from the version it finds.
VpkQueryStep(c, q, v) ==
    IF q.op = "stat"
    THEN \E gi \in {VpkGetFileInfo(v, disk, q.arg)} : VpkStatStep(c, q, gi)
    ELSE \E o \in {VpkQueryOn(v, disk, q)} : VpkAnswered(c, q, o.v, o.result)

\* A caller issues a query. On an instance never parsed validate enters
\* parse, which marks the instance INVALID and suspends in the read of the
\* directory file; on any other instance the query runs on (the backend does
\* not change, so a chunk read another caller makes meanwhile brings the
\* same bytes).
VpkBegin(c) ==
    /\ calls[c].pc = "idle"
    /\ \E q \in VpkAsyncQueries :
          IF vpk.version = VpkVersion_NONE
          THEN /\ vpk' = [vpk EXCEPT !.version = VpkVersion_INVALID]
               /\ calls' = [calls EXCEPT ![c] = [pc |-> "parsing", q |-> q,
                                                 result |-> Undef]]
               /\ UNCHANGED <<disk, steam, game, lastOp, hist, cachecache>>
          ELSE VpkQueryStep(c, q, vpk)

\* The parse a caller is suspended in runs from its read to its end (what
\* parse does past its first check, on the instance it marked), and the
\* caller's query goes on.
VpkResumeParse(c) ==
    /\ calls[c].pc = "parsing"
    /\ \E p \in {VpkParse(vpk, disk, TRUE)} : VpkQueryStep(c, calls[c].q, p.v)

\* stat, after getFileInfo found no record: if (path in this.dirs)
VpkResumeStat(c) ==
    /\ calls[c].pc = "dirs"
    /\ VpkAnswered(c, calls[c].q, vpk,
                   IF calls[c].q.arg \in vpk.dirs
                   THEN Stat(FileType_Directory, 0, 0) ELSE Undef)

\* The caller takes its answer.
VpkReturn(c) ==
    /\ calls[c].pc = "done"
    /\ calls' = [calls EXCEPT ![c] = Idle]
    /\ UNCHANGED <<disk, vpk, steam, game, lastOp, hist, cachecache>>

NextVpkAsync ==
    \E c \in Callers :
        \/ VpkBegin(c)
        \/ VpkResumeParse(c)
        \/ VpkResumeStat(c)
        \/ VpkReturn(c)

SpecVpkAsync == InitVpkAsync /\ [][NextVpkAsync]_vars

\* The instance after a complete parse of the backend's directory file.
FullyParsed == VpkParse(NewVpkSystem(ArchivePath, TRUE), disk, FALSE).v

\* C22: on a valid archive every answered readFile, stat or readDirectory
\* carries what the fully parsed index answers; none is NotFound for a
\* path the archive holds.
C22_ServedFromParsedIndex ==
    \A c \in Callers :
        calls[c].pc = "done" =>
            /\ calls[c].result # Undef
            /\ calls[c].result =
                   VpkQueryOn(FullyParsed, disk, calls[c].q).result

\* ------------------------------------------ properties of readDirectory

\* The file records that lie under directory path: in it or below it.
RecordsUnder(files, path) ==
    {k \in 1..Len(files) : StartsWith(files[k].path, path \o <<"/">>)}

\* C24: readDirectory on a parsed archive answers NotFound exactly when no
\* file record lies under the path, and a list otherwise.
C24_EmptyDirectoryNotFound ==
    lastOp.op = "readDirectory" /\ VpkReady =>
        (lastOp.result = Undef <=> RecordsUnder(vpk.files, lastOp.arg) = {})

\* Whether the directory exists in a provider of the game filesystem: an
\* archive holds a record under it, a folder has it on the backend.
DirExistsIn(ref, path) ==
    IF IsVpk(ref)
    THEN RecordsUnder(game.heap[ref].sys.files, path) # {}
    ELSE ListOf(ref, path) # Undef

\* C25: GameSystem.readDirectory answers NotFound whenever the directory
\* exists in none of the providers the qualifier admits.
C25_MissingDirectoryNotFound ==
    /\ lastOp.op = "readDirectory"
    /\ GameReady
    /\ \A k \in 1..Len(game.providers) :
           HasTag(game.providers[k], lastOp.qualifier) =>
               ~DirExistsIn(game.providers[k], lastOp.arg)
    => lastOp.result = Undef

\* Whether a returned entry names an immediate child of directory path: a
\* record stored directly in it, or a subdirectory a record lies under.
ImmediateChild(files, path, entry) ==
    IF entry[2] = FileType_File
    THEN \E k \in 1..Len(files) :
             files[k].path = path \o <<"/">> \o entry[1]
    ELSE RecordsUnder(files, path \o <<"/">> \o entry[1]) # {}

\* C26: every entry VpkSystem.readDirectory returns names an immediate
\* child of the path, and no name is returned twice.
C26_ImmediateChildrenOnly ==
    lastOp.op = "readDirectory" /\ VpkReady /\ lastOp.result # Undef =>
        /\ \A k \in 1..Len(lastOp.result.items) :
               ImmediateChild(vpk.files, lastOp.arg, lastOp.result.items[k])
        /\ \A j \in 1..Len(lastOp.result.items),
              k \in 1..Len(lastOp.result.items) :
               lastOp.result.items[j] = lastOp.result.items[k] => j = k

\* ----------------------------------------------- an archive of deep paths

\* An archive whose only record, /b/c/d/e.t, lies three directories deep:
\* no record is stored directly in /b or in /b/c.
DeepTree ==
    << [ext  |-> <<"t">>,
        dirs |-> <<
          [path  |-> <<"b", "/", "c", "/", "d">>,
           files |-> << [name |-> <<"e">>,
                         entry |-> Entry(96, <<83>>, INDEX_INLINE, 0, 0)] >>]
        >>] >>

DeepImageEntries ==
    << <<ArchivePath,
         EncodeHeader(1, Len(EncodeTree(DeepTree))) \o EncodeTree(DeepTree)>> >>

DeepStatPaths ==
    { <<>>, <<"/", "b">>, <<"/", "b", "/", "c">>, <<"/", "b", "/", "c", "/", "d">>, <<"/", "b", "/", "c", "/", "d", "/", "e", ".", "t">>, <<"/", "c">> }

InitDeep ==
    /\ disk = Disk("deep", DeepImageEntries, <<>>)
    /\ \E enableCache \in BOOLEAN : vpk = NewVpkSystem(ArchivePath, enableCache)
    /\ steam = Undef
    /\ game = Undef
    /\ lastOp = NoCall
    /\ hist = [missed |-> FALSE, aborted |-> FALSE]
    /\ calls = <<>>
    /\ cachecache = <<>>

CallStatDeep ==
    \E path \in DeepStatPaths :
    \E o \in {VpkStat(vpk, disk, path)} : VpkDone("stat", path, FALSE, o)

NextDeep ==
    \/ CallParse
    \/ CallValidate
    \/ CallStatDeep
    \/ EnvRemove
    \/ EnvRestore

SpecDeep == InitDeep /\ [][NextDeep]_vars

\* The directory that contains p and every ancestor of it, the root
\* included.
Ancestors(p) == {SubSeq(p, 1, j - 1) : j \in {i \in 1..Len(p) : p[i] = "/"}}

\* C27: on a parsed archive the directory of every file record and each of
\* its ancestors up to the root is in the directory set, and stat of such a
\* path answers a Directory of size 0.
C27_AncestorsAreDirectories ==
    /\ VpkReady =>
           \A k \in 1..Len(vpk.files) :
               Ancestors(vpk.files[k].path) \subseteq vpk.dirs
    /\ lastOp.op = "stat" /\ VpkReady
           /\ (\E k \in 1..Len(vpk.files) :
                   lastOp.arg \in Ancestors(vpk.files[k].path))
           => lastOp.result = Stat(FileType_Directory, 0, 0)

\* A stat of /b/c, a directory no record is stored directly in, answered
\* Directory on the parsed archive.
C27_Witness ==
    /\ lastOp.op = "stat"
    /\ lastOp.arg = <<"/", "b", "/", "c">>
    /\ VpkReady
    /\ \E k \in 1..Len(vpk.files) : lastOp.arg \in Ancestors(vpk.files[k].path)
    /\ \A k \in 1..Len(vpk.files) : Dirname(vpk.files[k].path) # lastOp.arg
    /\ lastOp.result = Stat(FileType_Directory, 0, 0)

\* ------------------------------------------- properties of tree decoding

\* The directories of the image's tree (it has one extension), and where
\* the record of file z of directory y starts in the directory file: right
\* after the NUL that ends its filename.
ImageDirs == TreeImage[1].dirs

RecordStart(headerSize, y, z) ==
    headerSize
        + Len(EncodeString(TreeImage[1].ext))
        + (Len(EncodeDirs(SubSeq(ImageDirs, 1, y - 1))) - 1)
        + Len(EncodeString(ImageDirs[y].path))
        + (Len(EncodeFiles(SubSeq(ImageDirs[y].files, 1, z - 1))) - 1)
        + Len(EncodeString(ImageDirs[y].files[z].name))

\* The canonical path of that file.
RecordPath(y, z) ==
    (IF ImageDirs[y].path = <<" ">> THEN <<>>
     ELSE <<"/">> \o ImageDirs[y].path)
        \o <<"/">> \o ImageDirs[y].files[z].name \o <<".">>
        \o TreeImage[1].ext

\* The filename that follows file z in directory y: empty after the last.
NextName(y, z) ==
    IF z < Len(ImageDirs[y].files) THEN ImageDirs[y].files[z + 1].name
    ELSE <<>>

\* A parse that read a well-formed directory file.
ParsedWellFormed ==
    /\ lastOp.op = "parse"
    /\ lastOp.force \/ lastOp.pre # VpkVersion_INVALID
    /\ disk.img \in {"v1", "v2"}
    /\ FsHas(disk, ArchivePath)

\* Whether every record's preload payload is the preload-length bytes that
\* start skip bytes after the record's start, the next filename following
\* right after them.
PreloadAt(skip) ==
    LET bytes == FsContent(disk, ArchivePath)
        hs    == IF disk.img = "v2" THEN SIZE_HEADER_V2 ELSE SIZE_HEADER_V1
    IN  \A y \in 1..Len(ImageDirs) : \A z \in 1..Len(ImageDirs[y].files) :
            LET pos == RecordStart(hs, y, z) + skip
                n   == GetU16(bytes, RecordStart(hs, y, z) + 4)
            IN  /\ HasFile(vpk.files, RecordPath(y, z))
                /\ FileInfoOf(vpk.files, RecordPath(y, z)).preloadBytes
                       = SubSeq(bytes, pos + 1, pos + n)
                /\ ReadString(bytes, pos + n).str = NextName(y, z)

C30_ErrorAnswersNotFound ==
    /\ lastOp.op \in {"readFile", "readDirectory", "getFileInfo", "stat"}
    /\ vpk.version = VpkVersion_INVALID
    => lastOp.result = Undef

\* ------------------------------------ re-parsing a replaced directory file

\* The backend of the re-parse runs: the directory file of the v1 image or
\* of the deep-path archive at the same path, with the chunk files.
ReparseEntries(img) ==
    IF img = "deep"
    THEN DeepImageEntries \o
         [k \in 1..(MaxChunk + 1) |-> <<ChunkPath(k - 1), ChunkBytes(k - 1)>>]
    ELSE VpkImageEntries(img)

InitReparse ==
    /\ disk = Disk("v1", ReparseEntries("v1"), <<>>)
    /\ \E enableCache \in BOOLEAN : vpk = NewVpkSystem(ArchivePath, enableCache)
    /\ steam = Undef
    /\ game = Undef
    /\ lastOp = NoCall
    /\ hist = [missed |-> FALSE, aborted |-> FALSE]
    /\ calls = <<>>
    /\ cachecache = <<>>

\* The environment replaces the directory file by the other archive's.
EnvReplace ==
    /\ \E img \in {"v1", "deep"} \ {disk.img} :
           disk' = [disk EXCEPT !.img = img, !.entries = ReparseEntries(img)]
    /\ lastOp' = NoCall
    /\ UNCHANGED <<vpk, steam, game, hist, calls, cachecache>>

NextReparse ==
    \/ CallParse
    \/ CallReadFile
    \/ CallStat
    \/ CallCleanCache
    \/ EnvReplace

SpecReparse == InitReparse /\ [][NextReparse]_vars

\* What a new instance holds after parsing the backend's directory file.
FreshlyParsed == VpkParse(NewVpkSystem(ArchivePath, TRUE), disk, FALSE).v

\* C31: after a forced parse that succeeds on an instance parsed before,
\* the file table and the directory set are those of the directory file
\* just read, and the chunk cache holds nothing from before.
C31_ReparseReplaces ==
    /\ lastOp.op = "parse"
    /\ lastOp.force
    /\ lastOp.pre # VpkVersion_NONE
    /\ lastOp.result = Bool(TRUE)
    => /\ vpk.files = FreshlyParsed.files
       /\ vpk.dirs = FreshlyParsed.dirs
       /\ vpk.cache = <<>>

\* ------------------------------------- properties of the provider order

\* Whether a provider comes from the mount of the installation, or from one
\* of its search-path declarations.
FromMount(ref) ==
    <<game.heap[ref].kind, ProviderPath(game.heap[ref])>>
        \in Range(OtherMountProviders)

FromSearchPath(ref) ==
    <<game.heap[ref].kind, ProviderPath(game.heap[ref])>>
        \in Range(SearchPathProviders(game.node))

\* The positions of the declaration order whose provider is of the given
\* origin and has the file.
MountHits(path) ==
    {k \in 1..Len(game.providers) :
        FromMount(game.providers[k]) /\ FileOf(game.providers[k], path) # Undef}

SearchPathHits(path) ==
    {k \in 1..Len(game.providers) :
        /\ FromSearchPath(game.providers[k])
        /\ FileOf(game.providers[k], path) # Undef}

\* C32: in the declaration-order list of a Ready GameSystem every provider
\* of a mount precedes every provider of a search path, and a readFile with
\* the default ordering and no qualifier for a file that a mounted provider
\* and a search-path provider both have answers with the bytes of the first
\* mounted provider that has it.
C32_MountsFirst ==
    /\ GameReady =>
           \A i \in 1..Len(game.providers), j \in 1..Len(game.providers) :
               /\ FromMount(game.providers[i])
               /\ FromSearchPath(game.providers[j])
               => i < j
    /\ lastOp.op = "readFile" /\ GameReady /\ ~lastOp.preferVpk
           /\ lastOp.qualifier = Undef
           /\ MountHits(lastOp.arg) # {}
           /\ SearchPathHits(lastOp.arg) # {}
           => lastOp.result =
                  FileOf(game.providers[Least(MountHits(lastOp.arg))],
                         lastOp.arg)

\* A read of a file that the mounted archive and a folder of the mod both
\* have, with different bytes, answered with the mounted archive's.
C32_Witness ==
    /\ lastOp.op = "readFile"
    /\ GameReady
    /\ ~lastOp.preferVpk
    /\ lastOp.qualifier = Undef
    /\ MountHits(lastOp.arg) # {}
    /\ SearchPathHits(lastOp.arg) # {}
    /\ lastOp.result.kind = "bytes"
    /\ lastOp.result # FileOf(game.providers[Least(SearchPathHits(lastOp.arg))],
                              lastOp.arg)

=============================================================================
